---- MODULE Spec2Model ----
(***************************************************************************)
(* Tool-evolution safety pipeline of the Kalshi prediction agent:          *)
(*   - the three-phase candidate verifier (tool_verifier.py),              *)
(*   - the evolution cycle and the approved manifest (graph.py,            *)
(*     tool_builder.py, registry.py),                                      *)
(*   - the lifecycle manager (tool_lifecycle_manager.py).                  *)
(* Each subsystem has its own specification over the shared variables.     *)
(***************************************************************************)
EXTENDS Integers, Sequences, FiniteSets, TLC

VARIABLES
    \* ---- verifier: verify_tool(tool_path, spec) ----
    tool_file,        \* the candidate file at tool_path: readable?, parses?, AST nodes
    manual_approval,  \* config.EVOLUTION_REQUIRE_MANUAL_APPROVAL
    pc,               \* position of the verifier (the calling thread)
    checks,           \* verify_tool's local dict checks: phase name -> bool
    status,           \* "running" | "returned" | "raised" | "blocked"
    result,           \* the VerificationResult returned (or the exception raised)
    thread,           \* the sandbox worker thread running _run_tool
    result_holder,    \* the dict shared between _run_tool and _check_runtime
    deadline,         \* what the worker was doing when the timed join gave up
    outputs,          \* _check_determinism's list outputs
    calls,            \* history: every value a candidate invocation returned
    events,           \* history: what was done with candidate code, in order
    pending,          \* files staged in GENERATED_TOOLS_DIR/pending
    \* ---- lifecycle manager: ToolLifecycleManager on one ledger path ----
    records,          \* self._records: tool name -> ToolLifecycleRecord
    ledger,           \* the JSONL file at self._path: tool name -> JSON line
    last_call,        \* history: the last public call, its arguments and result
    usage_events,     \* history: number of record_usage calls so far
    peer_records,     \* self._records of a second manager on the same path
    peer_events,      \* history: number of record_usage calls on the second manager
    recorded,         \* history: tool name -> usage events recorded by any manager
    reached_limit,    \* history: tools whose counter has reached the limit
    \* ---- evolution cycle (agent/graph.py) and the files it works on ----
    state,            \* the EvolutionState flowing through the graph
    graph_node,       \* the graph node to run next
    generated,        \* GENERATED_TOOLS_DIR: tool name -> source text of <name>.py
    manifest,         \* GENERATED_TOOLS_DIR/approved.json
    verified,         \* history: source texts that passed all three phases
    registry,         \* ToolRegistry._generated_tools: name -> source loaded
    cycles,           \* history: evolution cycles started
    stage_trace,      \* history: the nodes the current cycle has run, in order
    manifest_before,  \* history: approved.json when the current cycle started
    response,         \* history: the synthesis response of the current cycle
    \* ---- gap analyzer: one call of analyze_gaps ----
    log_file,         \* the execution log at log_path: missing, or its lines
    gap_args,         \* min_runs and gap_threshold of the call
    gap_pc,           \* where analyze_gaps is
    entries,          \* the list entries
    candidates,       \* the list candidates
    passes_run,       \* history: the detection passes started, in order
    gap_result,       \* what the call returned or raised
    prev_result,      \* history: what the previous call on the same log did
    gap_calls,        \* history: calls of analyze_gaps started
    \* ---- watcher: one call of watch_market (engine/watcher.py) ----
    watch_args,       \* threshold, poll_interval, timeout and max_ticks of the call
    watch_pc,         \* where watch_market is
    ticks,            \* the list ticks
    tick_count,       \* the local tick_count
    clock,            \* time.monotonic() - start, in seconds
    polls             \* history: the prices the client returned, in poll order

verifierVars == <<tool_file, manual_approval, pc, checks, status, result, thread,
                  result_holder, deadline, outputs, calls, events, pending>>

lifecycleVars == <<records, ledger, last_call, usage_events, peer_records,
                   peer_events, recorded, reached_limit>>

cycleVars == <<state, graph_node, generated, manifest, verified, registry, cycles,
               stage_trace, manifest_before, response>>

gapVars == <<log_file, gap_args, gap_pc, entries, candidates, passes_run, gap_result,
             prev_result, gap_calls>>

watcherVars == <<watch_args, watch_pc, ticks, tick_count, clock, polls>>

vars == <<verifierVars, lifecycleVars, cycleVars, gapVars, watcherVars>>

(***************************************************************************)
(* Bounds of the model.                                                    *)
(***************************************************************************)
MaxNodes == 2      \* AST nodes of a candidate source, in ast.walk order
NumVectors == 2    \* distinct well-formed output vectors a candidate returns
MaxUsageEvents == 5   \* record_usage calls in one behaviour
MaxCycles == 2     \* evolution cycles in one behaviour
MaxPeerEvents == 2 \* record_usage calls of the second manager in one behaviour
MaxLines == 3      \* lines of the execution log
MaxGapCalls == 2   \* calls of analyze_gaps on one log
MaxSamples == 22   \* records with a positive token count in one corpus

(***************************************************************************)
(* Sequence helpers.                                                       *)
(***************************************************************************)
SeqsUpTo(S, n) == UNION {[1..k -> S] : k \in 0..n}

Contains(seq, x) == \E i \in 1..Len(seq) : seq[i] = x

\* The first of a set of indices of a sequence, 0 if there is none.
FirstIndex(indices) ==
    IF indices = {} THEN 0 ELSE CHOOSE i \in indices : \A j \in indices : i <= j

(***************************************************************************)
(* Phase 1: static inspection.  A module name is the sequence of its       *)
(* dotted components; a mode string is the sequence of its characters.     *)
(***************************************************************************)
_BLOCKED_IMPORTS ==
    {"os", "subprocess", "sys", "shutil", "socket", "http", "requests",
     "urllib", "random"}

_BLOCKED_CALLS == {"exec", "eval", "__import__", "compile", "globals", "locals"}

\* Mutant: the last dotted component instead of the first (split(".")[-1]).
TopModule_Last(dotted) == dotted[Len(dotted)]

\* alias.name.split(".")[0]
TopModule(dotted) == dotted[1]

ImportNode(names) == [type |-> "Import", names |-> names]
\* module = <<>> stands for node.module is None (from . import x)
ImportFromNode(module) == [type |-> "ImportFrom", module |-> module]
NameFunc(id) == [kind |-> "Name", id |-> id]
AttrFunc(value, attr) == [kind |-> "Attribute", value |-> value, attr |-> attr]
OtherExpr == [kind |-> "Other"]
StrConst(chars) == [kind |-> "Constant", isstr |-> TRUE, value |-> chars]
IntConst == [kind |-> "Constant", isstr |-> FALSE]
CallNode(func, args, keywords) ==
    [type |-> "Call", func |-> func, args |-> args, keywords |-> keywords]
Keyword(arg, value) == [arg |-> arg, value |-> value]
OtherNode == [type |-> "Other"]

\* The nodes candidate sources are built from.
Nodes ==
    { OtherNode,
      ImportNode(<< <<"json">> >>),
      ImportNode(<< <<"os">> >>),
      ImportNode(<< <<"os", "path">> >>),
      ImportNode(<< <<"json">>, <<"sys">> >>),
      ImportFromNode(<<"urllib", "request">>),
      ImportFromNode(<<"math">>),
      ImportFromNode(<<>>),
      CallNode(NameFunc("eval"), << StrConst(<<"1">>) >>, <<>>),
      CallNode(AttrFunc(NameFunc("os"), "system"), <<>>, <<>>),
      CallNode(AttrFunc(OtherExpr, "compile"), <<>>, <<>>),
      CallNode(NameFunc("open"), << OtherExpr, StrConst(<<"w">>) >>, <<>>),
      CallNode(NameFunc("open"), << OtherExpr, StrConst(<<"r">>) >>, <<>>),
      CallNode(NameFunc("open"), << OtherExpr >>,
               << Keyword("mode", StrConst(<<"a", "b">>)) >>),
      CallNode(NameFunc("open"), << OtherExpr, IntConst >>, <<>>),
      CallNode(NameFunc("len"), << OtherExpr >>, <<>>) }

\* _get_call_name
_get_call_name(node) ==
    IF node.func.kind = "Name" THEN node.func.id
    ELSE IF node.func.kind = "Attribute" THEN node.func.attr
    ELSE ""

\* "w" in mode or "a" in mode, for a constant string mode argument
IsWriteMode(arg) ==
    /\ arg.kind = "Constant"
    /\ arg.isstr
    /\ (Contains(arg.value, "w") \/ Contains(arg.value, "a"))

AstOk == [ok |-> TRUE, kind |-> "", detail |-> <<>>]
AstBad(kind, detail) == [ok |-> FALSE, kind |-> kind, detail |-> detail]

BlockedAlias(dotted) == TopModule(dotted) \in _BLOCKED_IMPORTS

\* The body of the loop over ast.walk(tree) for one node.
CheckNode(node) ==
    IF node.type = "Import" THEN
        LET i == FirstIndex({k \in 1..Len(node.names) : BlockedAlias(node.names[k])})
        IN  IF i # 0 THEN AstBad("Blocked import", node.names[i]) ELSE AstOk
    ELSE IF node.type = "ImportFrom" THEN
        IF node.module # <<>> /\ TopModule(node.module) \in _BLOCKED_IMPORTS
        THEN AstBad("Blocked import from", node.module)
        ELSE AstOk
    ELSE IF node.type = "Call" THEN
        LET func_name == _get_call_name(node)
        IN  IF func_name \in _BLOCKED_CALLS
            THEN AstBad("Blocked function call", <<func_name>>)
            ELSE IF /\ node.func.kind = "Attribute"
                    /\ node.func.value.kind = "Name"
                    /\ node.func.value.id \in _BLOCKED_IMPORTS
            THEN AstBad("Blocked call", <<node.func.value.id, node.func.attr>>)
            ELSE IF /\ func_name = "open"
                    /\ Len(node.args) >= 2
                    /\ IsWriteMode(node.args[2])
            THEN AstBad("Blocked: open() in write/append mode", <<>>)
            ELSE IF /\ func_name = "open"
                    /\ \E k \in 1..Len(node.keywords) :
                           /\ node.keywords[k].arg = "mode"
                           /\ IsWriteMode(node.keywords[k].value)
            THEN AstBad("Blocked: open() in write/append mode", <<>>)
            ELSE AstOk
    ELSE AstOk

NodeRejected(node) == ~CheckNode(node).ok

\* for node in ast.walk(tree): the first rejected node decides
WalkTree(nodes) ==
    LET i == FirstIndex({k \in 1..Len(nodes) : NodeRejected(nodes[k])})
    IN  IF i # 0 THEN CheckNode(nodes[i]) ELSE AstOk

\* tool_path.read_text(...) and ast.parse(...): only SyntaxError is caught.
\* [raised |-> TRUE] stands for an exception leaving _check_ast.
_check_ast(file) ==
    IF file.read # "ok" THEN
        [raised |-> TRUE, exc |-> file.read, ok |-> FALSE, kind |-> "", detail |-> <<>>]
    ELSE IF file.parse = "SyntaxError" THEN
        [raised |-> FALSE, exc |-> "", ok |-> FALSE, kind |-> "Syntax error", detail |-> <<>>]
    ELSE IF file.parse # "ok" THEN
        [raised |-> TRUE, exc |-> file.parse, ok |-> FALSE, kind |-> "", detail |-> <<>>]
    ELSE
        LET w == WalkTree(file.nodes)
        IN  [raised |-> FALSE, exc |-> "", ok |-> w.ok, kind |-> w.kind, detail |-> w.detail]

(***************************************************************************)
(* VerificationResult and the values flowing through verify_tool.          *)
(***************************************************************************)
TOOL_VERIFY_DETERMINISM_RUNS == 3

PhaseNames == <<"ast_inspection", "runtime_sandbox", "determinism">>

spec_tool_name == "candidate_tool"

\* rejection_reason: the f-string prefix naming the phase, then the phase's own
\* reason (its fixed text and the values formatted into it).
Reason(prefix, kind, detail) == [prefix |-> prefix, kind |-> kind, detail |-> detail]
None == [prefix |-> "None", kind |-> "None", detail |-> <<>>]

VerificationResult(tool_name, passed, chk, rejection_reason) ==
    [tool_name |-> tool_name, passed |-> passed, checks |-> chk,
     rejection_reason |-> rejection_reason]

NoResult == [none |-> TRUE]
Raised(exc) == [exception |-> exc]

\* checks[phase] = ok
Put(chk, phase, ok) ==
    [p \in (DOMAIN chk) \cup {phase} |-> IF p = phase THEN ok ELSE chk[p]]

\* Values a candidate's run() can return.  A vector element is numeric or not.
Num(v) == [numeric |-> TRUE, v |-> v]
NonNumeric == [numeric |-> FALSE, v |-> 0]
ToolOutput(vec) == [cls |-> "ToolOutput", output_vector |-> vec]
NotToolOutput == [cls |-> "str", output_vector |-> <<>>]
NoOutput == [cls |-> "NoneType", output_vector |-> <<>>]

GoodVectors == {<< Num(v) >> : v \in 1..NumVectors}
Vectors == GoodVectors \cup {<<>>, << Num(1), NonNumeric >>}
ReturnValues == {ToolOutput(vec) : vec \in Vectors} \cup {NotToolOutput}

EmptyHolder == [output |-> NoOutput, error |-> "None"]

\* Lines 327-341 of _check_runtime: validation of the sandbox output.
ValidateOutput(output) ==
    IF output.cls # "ToolOutput" THEN
        [ok |-> FALSE, kind |-> "Output is not ToolOutput", detail |-> <<output.cls>>]
    ELSE IF output.output_vector = <<>> THEN
        [ok |-> FALSE, kind |-> "output_vector is empty", detail |-> <<>>]
    ELSE
        LET IsNonNumeric(e) == ~e.numeric
            i == FirstIndex({k \in 1..Len(output.output_vector) : IsNonNumeric(output.output_vector[k])})
        IN  IF i # 0
            THEN [ok |-> FALSE, kind |-> "output_vector is not numeric",
                  detail |-> [index |-> i - 1]]
            ELSE [ok |-> TRUE, kind |-> "", detail |-> <<>>]

\* Mutant: the comparison loop starts one run too late (outputs[2:]).
CompareOutputs_SkipsRun2(outs) ==
    LET reference == outs[1]
        Diverges == {i \in 3..Len(outs) : outs[i] # reference}
    IN  IF Diverges # {}
        THEN LET i == CHOOSE k \in Diverges : \A j \in Diverges : k <= j
             IN  [ok |-> FALSE, kind |-> "Non-deterministic",
                  detail |-> [reference_run |-> 1, reference |-> reference,
                              run |-> i, output |-> outs[i]]]
        ELSE [ok |-> TRUE, kind |-> "", detail |-> <<>>]

\* Lines 373-382 of _check_determinism: compare all outputs to the first.
\* Run numbers are 1-based; outputs[1] is the reference.
CompareOutputs(outs) ==
    LET reference == outs[1]
        Diverges == {i \in 2..Len(outs) : outs[i] # reference}
    IN  IF Diverges # {}
        THEN LET i == CHOOSE k \in Diverges : \A j \in Diverges : k <= j
             IN  [ok |-> FALSE, kind |-> "Non-deterministic",
                  detail |-> [reference_run |-> 1, reference |-> reference,
                              run |-> i, output |-> outs[i]]]
        ELSE [ok |-> TRUE, kind |-> "", detail |-> <<>>]

(***************************************************************************)
(* verify_tool as a state machine.  The verifier thread moves through pc;  *)
(* the sandbox worker thread (_run_tool) moves through thread.  What the   *)
(* candidate code does at each load, instantiation and invocation is not   *)
(* known to the verifier: it is chosen at the step.                        *)
(***************************************************************************)
Return(res) ==
    /\ status' = "returned"
    /\ result' = res
    /\ pc' = "done"

Raise(exc) ==
    /\ status' = "raised"
    /\ result' = Raised(exc)
    /\ pc' = "done"

\* The calling thread is inside candidate code that never returns.
Block ==
    /\ status' = "blocked"
    /\ pc' = "blocked"
    /\ UNCHANGED result

Continue(next) ==
    /\ pc' = next
    /\ UNCHANGED <<status, result>>

\* Mutant: the early return after a failed inspection is missing.
AstInspection_NoEarlyReturn ==
    /\ pc = "check_ast"
    /\ events' = Append(events, "phase:ast_inspection")
    /\ LET r == _check_ast(tool_file)
       IN  IF r.raised THEN
               /\ Raise(r.exc)
               /\ UNCHANGED checks
           ELSE
               /\ checks' = Put(checks, "ast_inspection", r.ok)
               /\ Continue("load")
    /\ UNCHANGED <<lifecycleVars, cycleVars, gapVars, watcherVars>>
    /\ UNCHANGED <<tool_file, manual_approval, thread, result_holder, deadline,
                   outputs, calls, pending>>

\* verify_tool lines 61-72: phase 1
AstInspection ==
    /\ pc = "check_ast"
    /\ events' = Append(events, "phase:ast_inspection")
    /\ LET r == _check_ast(tool_file)
       IN  IF r.raised THEN
               /\ Raise(r.exc)
               /\ UNCHANGED checks
           ELSE
               /\ checks' = Put(checks, "ast_inspection", r.ok)
               /\ IF ~r.ok
                  THEN Return(VerificationResult(spec_tool_name, FALSE, checks',
                                  Reason("AST inspection failed", r.kind, r.detail)))
                  ELSE Continue("load")
    /\ UNCHANGED <<lifecycleVars, cycleVars, gapVars, watcherVars>>
    /\ UNCHANGED <<tool_file, manual_approval, thread, result_holder, deadline,
                   outputs, calls, pending>>

RuntimeFailure(kind, detail) ==
    /\ checks' = Put(checks, "runtime_sandbox", FALSE)
    /\ Return(VerificationResult(spec_tool_name, FALSE, checks',
                  Reason("Runtime sandbox failed", kind, detail)))

LoadOutcomes == {"no_module_spec", "Exception", "BaseException", "hang",
                 "no_class", "class"}

\* verify_tool line 75 and _check_runtime lines 269-296: dynamic import
\* (exec_module runs the candidate's module body on the calling thread) and
\* the search for the BaseTool subclass.
LoadModule ==
    /\ pc = "load"
    /\ \E o \in LoadOutcomes :
          /\ events' = IF o = "no_module_spec"
                       THEN Append(events, "phase:runtime_sandbox")
                       ELSE events \o <<"phase:runtime_sandbox", "exec_module">>
          /\ CASE o = "no_module_spec" ->
                      RuntimeFailure("Could not create module spec", <<>>)
               [] o = "Exception" ->
                      RuntimeFailure("Import failed", <<"Exception">>)
               [] o = "BaseException" ->
                      Raise("BaseException") /\ UNCHANGED checks
               [] o = "hang" ->
                      Block /\ UNCHANGED checks
               [] o = "no_class" ->
                      RuntimeFailure("No BaseTool subclass found in module", <<>>)
               [] o = "class" ->
                      Continue("start_thread") /\ UNCHANGED checks
    /\ UNCHANGED <<lifecycleVars, cycleVars, gapVars, watcherVars>>
    /\ UNCHANGED <<tool_file, manual_approval, thread, result_holder, deadline,
                   outputs, calls, pending>>

\* _check_runtime lines 317-318: thread.start()
StartThread ==
    /\ pc = "start_thread"
    /\ thread = "unstarted"
    /\ thread' = "instantiating"
    /\ Continue("join")
    /\ UNCHANGED <<lifecycleVars, cycleVars, gapVars, watcherVars>>
    /\ UNCHANGED <<tool_file, manual_approval, checks, result_holder, deadline,
                   outputs, calls, events, pending>>

CallOutcomes == {"ok", "Exception", "BaseException", "hang"}

\* _run_tool line 311: tool_instance = tool_class(), on the worker thread.
\* `except Exception` stores the message; a BaseException ends the thread
\* with result_holder untouched.
WorkerInstantiate ==
    /\ thread = "instantiating"
    /\ events' = Append(events, "instantiate")
    /\ \E o \in CallOutcomes :
          CASE o = "ok" ->
                   thread' = "running" /\ UNCHANGED result_holder
            [] o = "Exception" ->
                   /\ thread' = "exiting"
                   /\ result_holder' = [result_holder EXCEPT !.error = "Exception"]
            [] o = "BaseException" ->
                   thread' = "exiting" /\ UNCHANGED result_holder
            [] o = "hang" ->
                   thread' = "hung" /\ UNCHANGED result_holder
    /\ UNCHANGED <<lifecycleVars, cycleVars, gapVars, watcherVars>>
    /\ UNCHANGED <<tool_file, manual_approval, pc, checks, status, result, deadline,
                   outputs, calls, pending>>

\* _run_tool lines 312-315: output = tool_instance.run(synthetic_event)
WorkerRun ==
    /\ thread = "running"
    /\ events' = Append(events, "run")
    /\ \/ \E v \in ReturnValues :
             /\ thread' = "exiting"
             /\ result_holder' = [result_holder EXCEPT !.output = v]
             /\ calls' = Append(calls, [phase |-> "runtime_sandbox", value |-> v])
       \/ /\ thread' = "exiting"
          /\ result_holder' = [result_holder EXCEPT !.error = "Exception"]
          /\ UNCHANGED calls
       \/ /\ thread' = "exiting"
          /\ UNCHANGED <<result_holder, calls>>
       \/ /\ thread' = "hung"
          /\ UNCHANGED <<result_holder, calls>>
    /\ UNCHANGED <<lifecycleVars, cycleVars, gapVars, watcherVars>>
    /\ UNCHANGED <<tool_file, manual_approval, pc, checks, status, result, deadline,
                   outputs, pending>>

\* _run_tool has returned and the thread ends: is_alive() is False from here.
WorkerExit ==
    /\ thread = "exiting"
    /\ thread' = "dead"
    /\ UNCHANGED <<lifecycleVars, cycleVars, gapVars, watcherVars>>
    /\ UNCHANGED <<tool_file, manual_approval, pc, checks, status, result,
                   result_holder, deadline, outputs, calls, events, pending>>

\* _check_runtime line 319: thread.join(timeout=...) returns because the
\* thread ended.
JoinReturns ==
    /\ pc = "join"
    /\ thread = "dead"
    /\ Continue("is_alive")
    /\ UNCHANGED <<lifecycleVars, cycleVars, gapVars, watcherVars>>
    /\ UNCHANGED <<tool_file, manual_approval, checks, thread, result_holder,
                   deadline, outputs, calls, events, pending>>

\* _check_runtime line 319: thread.join(timeout=...) returns because
\* TOOL_VERIFY_TIMEOUT_SEC elapsed with the thread still alive.
JoinTimesOut ==
    /\ pc = "join"
    /\ thread # "dead"
    /\ deadline' = thread
    /\ Continue("is_alive")
    /\ UNCHANGED <<lifecycleVars, cycleVars, gapVars, watcherVars>>
    /\ UNCHANGED <<tool_file, manual_approval, checks, thread, result_holder,
                   outputs, calls, events, pending>>

\* _check_runtime lines 321-341: the liveness test after the timed join, then
\* the validation of what the worker stored; verify_tool lines 76-83.
CheckAlive ==
    /\ pc = "is_alive"
    /\ IF thread # "dead" THEN
           RuntimeFailure("Tool execution timed out", <<>>)
       ELSE IF result_holder.error # "None" THEN
           RuntimeFailure("Runtime error", <<result_holder.error>>)
       ELSE
           LET v == ValidateOutput(result_holder.output)
           IN  IF ~v.ok THEN RuntimeFailure(v.kind, v.detail)
               ELSE /\ checks' = Put(checks, "runtime_sandbox", TRUE)
                    /\ Continue(IF TOOL_VERIFY_DETERMINISM_RUNS > 0
                                THEN "determinism" ELSE "compare")
    /\ UNCHANGED <<lifecycleVars, cycleVars, gapVars, watcherVars>>
    /\ UNCHANGED <<tool_file, manual_approval, thread, result_holder, deadline,
                   outputs, calls, events, pending>>

\* Mutant: the failed phase is not recorded in checks before returning.
DeterminismFailure_Unrecorded(kind, detail) ==
    /\ UNCHANGED checks
    /\ Return(VerificationResult(spec_tool_name, FALSE, checks,
                  Reason("Determinism check failed", kind, detail)))

DeterminismFailure(kind, detail) ==
    /\ checks' = Put(checks, "determinism", FALSE)
    /\ Return(VerificationResult(spec_tool_name, FALSE, checks',
                  Reason("Determinism check failed", kind, detail)))

\* Phase 3 starts with the first run of the loop.
DetEvents(more) ==
    IF Len(outputs) = 0
    THEN events \o (<<"phase:determinism">> \o more)
    ELSE events \o more

\* _check_determinism lines 365-371, one iteration of the loop, on the
\* calling thread: tool_class() then run(synthetic_event).  A returned value
\* without output_vector raises AttributeError inside the try.
DeterminismRun ==
    /\ pc = "determinism"
    /\ Len(outputs) < TOOL_VERIFY_DETERMINISM_RUNS
    /\ LET run == Len(outputs) + 1
       IN  \/ \E vec \in Vectors :
                 /\ outputs' = Append(outputs, vec)
                 /\ calls' = Append(calls, [phase |-> "determinism",
                                            value |-> ToolOutput(vec)])
                 /\ events' = DetEvents(<<"instantiate", "run">>)
                 /\ Continue(IF run = TOOL_VERIFY_DETERMINISM_RUNS
                             THEN "compare" ELSE "determinism")
                 /\ UNCHANGED checks
           \/ /\ events' = DetEvents(<<"instantiate">>)
              /\ DeterminismFailure("Run crashed", [run |-> run, exc |-> "Exception"])
              /\ UNCHANGED <<outputs, calls>>
           \/ /\ events' = DetEvents(<<"instantiate", "run">>)
              /\ DeterminismFailure("Run crashed", [run |-> run, exc |-> "Exception"])
              /\ UNCHANGED <<outputs, calls>>
           \/ /\ events' = DetEvents(<<"instantiate", "run">>)
              /\ calls' = Append(calls, [phase |-> "determinism",
                                         value |-> NotToolOutput])
              /\ DeterminismFailure("Run crashed",
                                    [run |-> run, exc |-> "AttributeError"])
              /\ UNCHANGED outputs
           \/ /\ events' = DetEvents(<<"instantiate", "run">>)
              /\ Raise("BaseException")
              /\ UNCHANGED <<checks, outputs, calls>>
           \/ /\ events' = DetEvents(<<"instantiate", "run">>)
              /\ Block
              /\ UNCHANGED <<checks, outputs, calls>>
    /\ UNCHANGED <<lifecycleVars, cycleVars, gapVars, watcherVars>>
    /\ UNCHANGED <<tool_file, manual_approval, thread, result_holder, deadline,
                   pending>>

\* Mutant: the early return after a failed comparison is missing.
DeterminismCompare_NoEarlyReturn ==
    /\ pc = "compare"
    /\ IF Len(outputs) = 0 THEN
           Raise("IndexError") /\ UNCHANGED checks
       ELSE
           /\ checks' = Put(checks, "determinism", CompareOutputs(outputs).ok)
           /\ Continue("approve")
    /\ UNCHANGED <<lifecycleVars, cycleVars, gapVars, watcherVars>>
    /\ UNCHANGED <<tool_file, manual_approval, thread, result_holder, deadline,
                   outputs, calls, events, pending>>

\* _check_determinism lines 373-382 and verify_tool lines 87-94.
\* outputs[0] on an empty list raises IndexError.
DeterminismCompare ==
    /\ pc = "compare"
    /\ IF Len(outputs) = 0 THEN
           Raise("IndexError") /\ UNCHANGED checks
       ELSE
           LET c == CompareOutputs(outputs)
           IN  IF ~c.ok THEN DeterminismFailure(c.kind, c.detail)
               ELSE /\ checks' = Put(checks, "determinism", TRUE)
                    /\ Continue("approve")
    /\ UNCHANGED <<lifecycleVars, cycleVars, gapVars, watcherVars>>
    /\ UNCHANGED <<tool_file, manual_approval, thread, result_holder, deadline,
                   outputs, calls, events, pending>>

PyFile(name) == <<name, ".py">>
ReviewFile(name) == <<name, "_REVIEW.md">>

StagingOutcomes == {"ok", "mkdir_fails", "copy_fails", "write_fails"}

\* verify_tool lines 98-183: the manual approval gate and the final result.
\* mkdir, shutil.copy and write_text can each raise OSError; nothing catches it.
Approve ==
    /\ pc = "approve"
    /\ IF manual_approval THEN
           \E o \in StagingOutcomes :
              CASE o = "ok" ->
                       /\ pending' = pending \cup {PyFile(spec_tool_name),
                                                   ReviewFile(spec_tool_name)}
                       /\ Return(VerificationResult(spec_tool_name, TRUE, checks, None))
                [] o = "write_fails" ->
                       /\ pending' = pending \cup {PyFile(spec_tool_name)}
                       /\ Raise("OSError")
                [] OTHER ->
                       /\ UNCHANGED pending
                       /\ Raise("OSError")
       ELSE
           /\ UNCHANGED pending
           /\ Return(VerificationResult(spec_tool_name, TRUE, checks, None))
    /\ UNCHANGED <<lifecycleVars, cycleVars, gapVars, watcherVars>>
    /\ UNCHANGED <<tool_file, manual_approval, checks, thread, result_holder,
                   deadline, outputs, calls, events>>

(***************************************************************************)
(* Lifecycle manager (tool_lifecycle_manager.py).                          *)
(***************************************************************************)
\* config.EVOLUTION_DEPRECATION_RUNS.  config.py's evolution section is not
\* part of the sources at hand; the limit is a configured value and the model
\* takes a small one.
EVOLUTION_DEPRECATION_RUNS == 3

ToolNames == {"alpha_tool", "beta_tool"}
Scores == {-1, 1}          \* score_contribution
Thresholds == {0, 1}       \* underperformance_threshold
Latencies == {5}           \* latency_ms

\* ToolStatus members and their JSON values.
ToolStatusValue(member) ==
    CASE member = "ACTIVE" -> "active"
      [] member = "DEPRECATED" -> "deprecated"
      [] member = "PENDING" -> "pending"

ToolStatusMember(value) ==
    CASE value = "active" -> "ACTIVE"
      [] value = "deprecated" -> "DEPRECATED"
      [] value = "pending" -> "PENDING"

\* ToolLifecycleRecord(tool_name=...) with its defaults.
ToolLifecycleRecord(tool_name) ==
    [tool_name |-> tool_name, usage_count |-> 0, total_score_contribution |-> 0,
     correct_predictions |-> 0, total_predictions |-> 0, total_latency_ms |-> 0,
     consecutive_underperformance |-> 0, status |-> "ACTIVE", last_used_at |-> "None"]

\* Mutant: the status is left out of the dump and read back as the default.
ModelDump_WithoutStatus(record) == [record EXCEPT !.status = "active"]

\* record.model_dump(mode="json"): the enum becomes its value.
ModelDump(record) == [record EXCEPT !.status = ToolStatusValue(record.status)]

\* ToolLifecycleRecord(**json.loads(line)): the value becomes the enum member.
ParseLine(line) == [line EXCEPT !.status = ToolStatusMember(line.status)]

\* Mutant: only the active records are written.
_save_ActiveOnly(table) ==
    [n \in {m \in DOMAIN table : table[m].status = "ACTIVE"} |-> ModelDump(table[n])]

\* _save: the file is rewritten from self._records.
_save(table) == [n \in DOMAIN table |-> ModelDump(table[n])]

\* _load: one record per line, keyed by its tool_name.
_load(file) == [n \in DOMAIN file |-> ParseLine(file[n])]

EmptyTable == [n \in {} |-> ToolLifecycleRecord(n)]

\* Ledgers found on disk when the manager is constructed: none, or one
\* written earlier that holds a tool awaiting approval.
InitialLedgers ==
    { _save(EmptyTable),
      _save([n \in {"beta_tool"} |->
                 [ToolLifecycleRecord(n) EXCEPT !.status = "PENDING"]]) }

NoCall == [op |-> "none"]

\* Mutant: the comparison is <= instead of <.
Underperforms_OrEqual(score_contribution, underperformance_threshold) ==
    score_contribution <= underperformance_threshold

\* record_usage line 72: score_contribution < underperformance_threshold
Underperforms(score_contribution, underperformance_threshold) ==
    score_contribution < underperformance_threshold

\* Mutant: a usage that resets the counter makes the tool active again.
record_usage_Reactivates(table, tool_name, score_contribution, correct, latency_ms, underperformance_threshold) ==
    LET record == IF tool_name \in DOMAIN table
                  THEN table[tool_name]
                  ELSE ToolLifecycleRecord(tool_name)
        under == Underperforms(score_contribution, underperformance_threshold)
        updated ==
            [record EXCEPT
               !.usage_count = @ + 1,
               !.total_score_contribution = @ + score_contribution,
               !.total_predictions = @ + 1,
               !.total_latency_ms = @ + latency_ms,
               !.last_used_at = "now",
               !.correct_predictions = IF correct THEN @ + 1 ELSE @,
               !.consecutive_underperformance = IF under THEN @ + 1 ELSE 0,
               !.status = IF under THEN @ ELSE "ACTIVE"]
    IN  [n \in (DOMAIN table) \cup {tool_name} |->
            IF n = tool_name THEN updated ELSE table[n]]

\* Mutant: total_predictions is not counted.
record_usage_SkipsTotal(table, tool_name, score_contribution, correct, latency_ms, underperformance_threshold) ==
    LET record == IF tool_name \in DOMAIN table
                  THEN table[tool_name]
                  ELSE ToolLifecycleRecord(tool_name)
        updated ==
            [record EXCEPT
               !.usage_count = @ + 1,
               !.total_score_contribution = @ + score_contribution,
               !.total_latency_ms = @ + latency_ms,
               !.last_used_at = "now",
               !.correct_predictions = IF correct THEN @ + 1 ELSE @,
               !.consecutive_underperformance =
                   IF Underperforms(score_contribution, underperformance_threshold)
                   THEN @ + 1 ELSE 0]
    IN  [n \in (DOMAIN table) \cup {tool_name} |->
            IF n = tool_name THEN updated ELSE table[n]]

\* record_usage lines 57-75: the table after one usage event.
record_usage(table, tool_name, score_contribution, correct, latency_ms, underperformance_threshold) ==
    LET record == IF tool_name \in DOMAIN table
                  THEN table[tool_name]
                  ELSE ToolLifecycleRecord(tool_name)
        updated ==
            [record EXCEPT
               !.usage_count = @ + 1,
               !.total_score_contribution = @ + score_contribution,
               !.total_predictions = @ + 1,
               !.total_latency_ms = @ + latency_ms,
               !.last_used_at = "now",
               !.correct_predictions = IF correct THEN @ + 1 ELSE @,
               !.consecutive_underperformance =
                   IF Underperforms(score_contribution, underperformance_threshold)
                   THEN @ + 1 ELSE 0]
    IN  [n \in (DOMAIN table) \cup {tool_name} |->
            IF n = tool_name THEN updated ELSE table[n]]

\* Mutant: the limit has to be exceeded.
ReachedLimit_Exceeded(record) ==
    record.consecutive_underperformance > EVOLUTION_DEPRECATION_RUNS

\* check_deprecation line 90
ReachedLimit(record) ==
    record.consecutive_underperformance >= EVOLUTION_DEPRECATION_RUNS

\* check_deprecation line 92
Deprecate(table, tool_name) == [table EXCEPT ![tool_name].status = "DEPRECATED"]

\* Mutant: every status but DEPRECATED counts as active.
get_active_tools_NotDeprecated(table) ==
    {n \in DOMAIN table : table[n].status # "DEPRECATED"}

\* get_active_tools lines 113-117
get_active_tools(table) == {n \in DOMAIN table : table[n].status = "ACTIVE"}

\* History kept beside the calls: how many usage events were recorded for
\* each tool, and which counters have been at the limit.
CountUsage(tool_name) ==
    [n \in (DOMAIN recorded) \cup {tool_name} |->
        (IF n \in DOMAIN recorded THEN recorded[n] ELSE 0)
        + (IF n = tool_name THEN 1 ELSE 0)]

AtLimit(table) == {n \in DOMAIN table : ReachedLimit(table[n])}

\* record_usage lines 57-77
RecordUsage(tool_name, score_contribution, correct, latency_ms, underperformance_threshold) ==
    /\ usage_events < MaxUsageEvents
    /\ records' = record_usage(records, tool_name, score_contribution, correct,
                               latency_ms, underperformance_threshold)
    /\ ledger' = _save(records')
    /\ last_call' = [op |-> "record_usage", tool_name |-> tool_name,
                     score_contribution |-> score_contribution,
                     underperformance_threshold |-> underperformance_threshold,
                     correct |-> correct,
                     before |-> IF tool_name \in DOMAIN records
                                THEN records[tool_name]
                                ELSE ToolLifecycleRecord(tool_name)]
    /\ usage_events' = usage_events + 1
    /\ recorded' = CountUsage(tool_name)
    /\ reached_limit' = reached_limit \cup AtLimit(records')
    /\ UNCHANGED <<peer_records, peer_events>>

\* _save lines 140-145 when the process dies inside it, called from
\* record_usage line 77.  open(path, "w") has emptied the file and no line
\* has reached it yet (a later death leaves the first lines only).  The
\* manager is gone with the process; the next process constructs one from
\* the file (lines 30-33).
RecordUsageCrashes(tool_name, score_contribution, correct, latency_ms, underperformance_threshold) ==
    /\ usage_events < MaxUsageEvents
    /\ ledger' = _save(EmptyTable)
    /\ last_call' = [op |-> "crash in _save",
                     file_before |-> ledger,
                     file_after |-> _save(record_usage(records, tool_name,
                                              score_contribution, correct, latency_ms,
                                              underperformance_threshold))]
    /\ records' = _load(ledger')
    /\ usage_events' = usage_events + 1
    /\ UNCHANGED <<peer_records, peer_events, recorded, reached_limit>>
    /\ UNCHANGED <<verifierVars, cycleVars, gapVars, watcherVars>>

\* Mutant: an unknown name gets a record, as in record_usage.
CheckDeprecation_CreatesRecord(tool_name) ==
    /\ IF tool_name \notin DOMAIN records THEN
           /\ last_call' = [op |-> "check_deprecation", tool_name |-> tool_name,
                            returned |-> FALSE]
           /\ records' = [n \in (DOMAIN records) \cup {tool_name} |->
                             IF n = tool_name THEN ToolLifecycleRecord(tool_name)
                             ELSE records[n]]
           /\ UNCHANGED ledger
       ELSE IF ReachedLimit(records[tool_name]) THEN
           /\ last_call' = [op |-> "check_deprecation", tool_name |-> tool_name,
                            returned |-> TRUE]
           /\ IF records[tool_name].status # "DEPRECATED"
              THEN /\ records' = Deprecate(records, tool_name)
                   /\ ledger' = _save(records')
              ELSE UNCHANGED <<records, ledger>>
       ELSE
           /\ last_call' = [op |-> "check_deprecation", tool_name |-> tool_name,
                            returned |-> FALSE]
           /\ UNCHANGED <<records, ledger>>
    /\ UNCHANGED <<usage_events, peer_records, peer_events, recorded, reached_limit>>

\* check_deprecation lines 86-101
CheckDeprecation(tool_name) ==
    /\ IF tool_name \notin DOMAIN records THEN
           /\ last_call' = [op |-> "check_deprecation", tool_name |-> tool_name,
                            returned |-> FALSE]
           /\ UNCHANGED <<records, ledger>>
       ELSE IF ReachedLimit(records[tool_name]) THEN
           /\ last_call' = [op |-> "check_deprecation", tool_name |-> tool_name,
                            returned |-> TRUE]
           /\ IF records[tool_name].status # "DEPRECATED"
              THEN /\ records' = Deprecate(records, tool_name)
                   /\ ledger' = _save(records')
              ELSE UNCHANGED <<records, ledger>>
       ELSE
           /\ last_call' = [op |-> "check_deprecation", tool_name |-> tool_name,
                            returned |-> FALSE]
           /\ UNCHANGED <<records, ledger>>
    /\ UNCHANGED <<usage_events, peer_records, peer_events, recorded, reached_limit>>

\* get_active_tools lines 111-117
GetActiveTools ==
    /\ last_call' = [op |-> "get_active_tools", returned |-> get_active_tools(records)]
    /\ UNCHANGED <<records, ledger, usage_events, peer_records, peer_events, recorded, reached_limit>>

\* __init__ lines 30-33: a new manager on the same path replaces the old one.
NewManager ==
    /\ records' = _load(ledger)
    /\ last_call' = [op |-> "__init__"]
    /\ UNCHANGED <<ledger, usage_events, peer_records, peer_events, recorded, reached_limit>>

\* The second manager, opened on the same path: __init__ lines 30-33.
PeerNewManager ==
    /\ peer_records' = _load(ledger)
    /\ peer_records' # peer_records
    /\ last_call' = [op |-> "peer __init__"]
    /\ UNCHANGED <<records, ledger, usage_events, peer_events, recorded, reached_limit>>

\* record_usage lines 57-77, called on the second manager.
PeerRecordUsage(tool_name, score_contribution, correct, latency_ms, underperformance_threshold) ==
    /\ usage_events < MaxUsageEvents
    /\ peer_events < MaxPeerEvents
    /\ peer_events' = peer_events + 1
    /\ peer_records' = record_usage(peer_records, tool_name, score_contribution,
                                    correct, latency_ms, underperformance_threshold)
    /\ ledger' = _save(peer_records')
    /\ last_call' = [op |-> "peer record_usage", tool_name |-> tool_name]
    /\ usage_events' = usage_events + 1
    /\ recorded' = CountUsage(tool_name)
    /\ reached_limit' = reached_limit \cup AtLimit(peer_records')
    /\ UNCHANGED records

\* The manager is not in use (the other subsystems' specifications).
LifecycleIdle ==
    /\ records = EmptyTable
    /\ ledger = _save(EmptyTable)
    /\ last_call = NoCall
    /\ usage_events = 0
    /\ peer_records = EmptyTable
    /\ peer_events = 0
    /\ recorded = [n \in {} |-> 0]
    /\ reached_limit = {}

(***************************************************************************)
(* Evolution cycle (agent/graph.py), tool builder and registry.            *)
(***************************************************************************)
NoneValue == [none |-> TRUE]

\* main.py lines 201-209: the state a cycle starts from.
InitialEvolutionState ==
    [gap_report |-> NoneValue, tool_spec |-> NoneValue, tool_path |-> NoneValue,
     verification_result |-> NoneValue, registry_updated |-> FALSE, error |-> "None"]

\* Source texts the code-synthesis service returns.
SourceTexts == {"source_a", "source_b"}

NoManifest == [exists |-> FALSE, entries |-> <<>>]
\* Mutant: no name is found in the manifest.
ManifestNames_Empty(m) == {}

ManifestNames(m) == {m.entries[i].tool_name : i \in 1..Len(m.entries)}
ManifestEntry(tool_name) == [tool_name |-> tool_name, version |-> "0.1.0"]

\* The cycle is not running (the other subsystems' specifications).
CycleIdle ==
    /\ state = InitialEvolutionState
    /\ graph_node = "END"
    /\ generated = [n \in {} |-> ""]
    /\ manifest = NoManifest
    /\ verified = {}
    /\ registry = [n \in {} |-> ""]
    /\ cycles = 0
    /\ stage_trace = <<>>
    /\ manifest_before = NoManifest
    /\ response = NoneValue

\* main.py lines 199-209: evo_graph.invoke(...) with a fresh state; the entry
\* point is analyze_logs.  A run that died starts again as a new process.
StartCycle ==
    /\ graph_node \in {"END", "crashed"}
    /\ cycles < MaxCycles
    /\ cycles' = cycles + 1
    /\ stage_trace' = <<>>
    /\ manifest_before' = manifest
    /\ response' = NoneValue
    /\ state' = InitialEvolutionState
    /\ graph_node' = "analyze_logs"
    /\ UNCHANGED <<generated, manifest, verified, registry>>
    /\ UNCHANGED <<verifierVars, lifecycleVars, gapVars, watcherVars>>

\* Mutant: a failed analysis is run again.
AnalyzeLogs_Retries ==
    /\ graph_node = "analyze_logs"
    /\ stage_trace' = Append(stage_trace, "analyze_logs")
    /\ UNCHANGED <<manifest_before, response>>
    /\ \/ /\ state' = [state EXCEPT !.gap_report = [problem_detected |-> "gap"]]
          /\ graph_node' = "propose_tool"
       \/ /\ state' = [state EXCEPT !.gap_report = NoneValue]
          /\ graph_node' = "END"
       \/ /\ state' = [state EXCEPT !.gap_report = NoneValue,
                                    !.error = "Gap analysis failed"]
          /\ graph_node' = "analyze_logs"
    /\ UNCHANGED <<generated, manifest, verified, registry, cycles>>
    /\ UNCHANGED <<verifierVars, lifecycleVars, gapVars, watcherVars>>

\* _analyze_logs_node lines 73-93 and the conditional edge _should_propose
\* lines 96-100.
AnalyzeLogs ==
    /\ graph_node = "analyze_logs"
    /\ stage_trace' = Append(stage_trace, "analyze_logs")
    /\ UNCHANGED <<manifest_before, response>>
    /\ \/ /\ state' = [state EXCEPT !.gap_report = [problem_detected |-> "gap"]]
          /\ graph_node' = "propose_tool"
       \/ /\ state' = [state EXCEPT !.gap_report = NoneValue]
          /\ graph_node' = "END"
       \/ /\ state' = [state EXCEPT !.gap_report = NoneValue,
                                    !.error = "Gap analysis failed"]
          /\ graph_node' = "END"
    /\ UNCHANGED <<generated, manifest, verified, registry, cycles>>
    /\ UNCHANGED <<verifierVars, lifecycleVars, gapVars, watcherVars>>

\* What the synthesis service answers: the fields of the JSON object that
\* the validators of ToolSpec look at.
ResponseNames == ToolNames \cup {"gamma", ""}
RiskLevels == {"low", "medium", "high"}

SynthesisResponses ==
    [tool_name : ResponseNames, deterministic : BOOLEAN, risk_level : RiskLevels]

\* Field(..., min_length=1), schemas.py line 72
NameLongEnough(tool_name) == tool_name # ""

\* schemas.py lines 83-88: raises unless v.
must_be_deterministic(v) == v

\* Mutant: every risk level is accepted.
reject_high_risk_Accepts(v) == v \in RiskLevels

\* schemas.py lines 90-95: raises for RiskLevel.HIGH.
reject_high_risk(v) == v # "high"

\* ToolSpec(**spec_dict) lines 69-95 returns a value (TRUE) or raises.
ToolSpecValidates(spec_dict) ==
    /\ NameLongEnough(spec_dict.tool_name)
    /\ must_be_deterministic(spec_dict.deterministic)
    /\ reject_high_risk(spec_dict.risk_level)

\* _propose_tool_node lines 103-118.  generate_tool_spec lines 96-108 parses
\* the response and constructs ToolSpec from it; the call of the service, the
\* JSON parse and the construction can each raise.
ProposeTool ==
    /\ graph_node = "propose_tool"
    /\ stage_trace' = Append(stage_trace, "propose_tool")
    /\ UNCHANGED manifest_before
    /\ \/ \E spec_dict \in SynthesisResponses :
             /\ response' = spec_dict
             /\ state' = IF ToolSpecValidates(spec_dict)
                         THEN [state EXCEPT !.tool_spec = spec_dict]
                         ELSE [state EXCEPT !.tool_spec = NoneValue,
                                            !.error = "Tool spec generation failed"]
       \/ /\ response' = NoneValue
          /\ state' = [state EXCEPT !.tool_spec = NoneValue,
                                    !.error = "Tool spec generation failed"]
    /\ graph_node' = "build_tool"
    /\ UNCHANGED <<generated, manifest, verified, registry, cycles>>
    /\ UNCHANGED <<verifierVars, lifecycleVars, gapVars, watcherVars>>

\* build_tool lines 78-114: file_path = target_dir / f"{tool_name}.py" is
\* written with the synthesized code, whatever the directory already holds.
build_tool(files, tool_name, code) ==
    [n \in (DOMAIN files) \cup {tool_name} |-> IF n = tool_name THEN code ELSE files[n]]

\* _build_tool_node lines 121-140
BuildTool ==
    /\ graph_node = "build_tool"
    /\ stage_trace' = Append(stage_trace, "build_tool")
    /\ UNCHANGED <<manifest_before, response>>
    /\ IF state.tool_spec = NoneValue THEN
           /\ state' = [state EXCEPT !.error = "No tool spec available for building."]
           /\ UNCHANGED generated
       ELSE
           \/ \E code \in SourceTexts :
                 /\ generated' = build_tool(generated, state.tool_spec.tool_name, code)
                 /\ state' = [state EXCEPT !.tool_path = [file |-> state.tool_spec.tool_name]]
           \/ /\ state' = [state EXCEPT !.tool_path = NoneValue,
                                        !.error = "Tool build failed"]
              /\ UNCHANGED generated
    /\ graph_node' = "verify_tool"
    /\ UNCHANGED <<manifest, verified, registry, cycles>>
    /\ UNCHANGED <<verifierVars, lifecycleVars, gapVars, watcherVars>>

\* What a call of verify_tool ends in, as the cycle sees it: a rejection at
\* phase 1, 2 or 3, an acceptance, an exception, or no return at all.
VerifyOutcomes ==
    {"rejected_1", "rejected_2", "rejected_3", "passed", "staging_fails",
     "Exception", "BaseException", "hang"}

\* Mutant: under the manual-approval policy an accepted candidate's result
\* says passed = false.
VerifyResult_EncodesApproval(tool_name, outcome) ==
    IF outcome = "passed"
    THEN VerificationResult(tool_name, ~manual_approval,
             Put(Put(Put(<<>>, "ast_inspection", TRUE), "runtime_sandbox", TRUE),
                 "determinism", TRUE),
             None)
    ELSE VerificationResult(tool_name, FALSE,
             Put(<<>>, "ast_inspection", FALSE),
             Reason("AST inspection failed", "", <<>>))

\* The result of verify_tool for each outcome that returns one, with the
\* reason cut down to the phase it names.
VerifyResult(tool_name, outcome) ==
    CASE outcome = "rejected_1" ->
             VerificationResult(tool_name, FALSE,
                 Put(<<>>, "ast_inspection", FALSE),
                 Reason("AST inspection failed", "", <<>>))
      [] outcome = "rejected_2" ->
             VerificationResult(tool_name, FALSE,
                 Put(Put(<<>>, "ast_inspection", TRUE), "runtime_sandbox", FALSE),
                 Reason("Runtime sandbox failed", "", <<>>))
      [] outcome = "rejected_3" ->
             VerificationResult(tool_name, FALSE,
                 Put(Put(Put(<<>>, "ast_inspection", TRUE), "runtime_sandbox", TRUE),
                     "determinism", FALSE),
                 Reason("Determinism check failed", "", <<>>))
      [] outcome = "passed" ->
             VerificationResult(tool_name, TRUE,
                 Put(Put(Put(<<>>, "ast_inspection", TRUE), "runtime_sandbox", TRUE),
                     "determinism", TRUE),
                 None)

\* _verify_tool_node lines 143-170.  verify_tool runs on the file build_tool
\* wrote; `except Exception` turns an exception into an error, a
\* BaseException ends the run, a hang in candidate code blocks it.
VerifyTool ==
    /\ graph_node = "verify_tool"
    /\ stage_trace' = Append(stage_trace, "verify_tool")
    /\ UNCHANGED <<manifest_before, response>>
    /\ IF state.tool_path = NoneValue \/ state.tool_spec = NoneValue THEN
           /\ state' = [state EXCEPT !.error = "No tool to verify."]
           /\ graph_node' = "update_registry"
           /\ UNCHANGED <<verified, pending>>
       ELSE
           LET tool_name == state.tool_spec.tool_name
               source == generated[state.tool_path.file]
           IN  \E o \in VerifyOutcomes :
                  CASE o \in {"rejected_1", "rejected_2", "rejected_3"} ->
                           /\ state' = [state EXCEPT !.verification_result =
                                                         VerifyResult(tool_name, o)]
                           /\ graph_node' = "update_registry"
                           /\ UNCHANGED <<verified, pending>>
                    [] o = "passed" ->
                           /\ state' = [state EXCEPT !.verification_result =
                                                         VerifyResult(tool_name, o)]
                           /\ graph_node' = "update_registry"
                           /\ verified' = verified \cup {source}
                           /\ pending' = IF manual_approval
                                         THEN pending \cup {PyFile(tool_name),
                                                            ReviewFile(tool_name)}
                                         ELSE pending
                    [] o = "staging_fails" ->
                           /\ manual_approval
                           /\ state' = [state EXCEPT !.verification_result = NoneValue,
                                                     !.error = "Verification failed"]
                           /\ graph_node' = "update_registry"
                           /\ verified' = verified \cup {source}
                           /\ pending' = pending \cup {PyFile(tool_name)}
                    [] o = "Exception" ->
                           /\ state' = [state EXCEPT !.verification_result = NoneValue,
                                                     !.error = "Verification failed"]
                           /\ graph_node' = "update_registry"
                           /\ UNCHANGED <<verified, pending>>
                    [] o = "BaseException" ->
                           /\ graph_node' = "crashed"
                           /\ UNCHANGED <<state, verified, pending>>
                    [] o = "hang" ->
                           /\ graph_node' = "blocked"
                           /\ UNCHANGED <<state, verified, pending>>
    /\ UNCHANGED <<generated, manifest, registry, cycles>>
    /\ UNCHANGED <<tool_file, manual_approval, pc, checks, status, result, thread,
                   result_holder, deadline, outputs, calls, events>>
    /\ UNCHANGED <<lifecycleVars, gapVars, watcherVars>>

\* Mutant: the passed flag of the verification result is not looked at.
UpdateRegistry_WithoutGate ==
    /\ graph_node = "update_registry"
    /\ stage_trace' = Append(stage_trace, "update_registry")
    /\ UNCHANGED <<manifest_before, response>>
    /\ LET verification == state.verification_result
       IN  IF verification = NoneValue THEN
               /\ state' = [state EXCEPT !.registry_updated = FALSE]
               /\ UNCHANGED manifest
           ELSE IF manual_approval THEN
               /\ state' = [state EXCEPT !.registry_updated = FALSE]
               /\ UNCHANGED manifest
           ELSE IF verification.tool_name \in ManifestNames(manifest) THEN
               /\ state' = [state EXCEPT !.registry_updated = FALSE]
               /\ UNCHANGED manifest
           ELSE
               \/ /\ manifest' = [exists |-> TRUE,
                                  entries |-> Append(manifest.entries,
                                                  ManifestEntry(verification.tool_name))]
                  /\ state' = [state EXCEPT !.registry_updated = TRUE]
               \/ /\ state' = [state EXCEPT !.registry_updated = FALSE,
                                            !.error = "Registry update failed"]
                  /\ UNCHANGED manifest
    /\ graph_node' = "END"
    /\ UNCHANGED <<generated, verified, registry, cycles>>
    /\ UNCHANGED <<verifierVars, lifecycleVars, gapVars, watcherVars>>

\* _update_registry_node lines 173-227.  Reading or writing approved.json can
\* fail; the handler at lines 222-225 reports it.
UpdateRegistry ==
    /\ graph_node = "update_registry"
    /\ stage_trace' = Append(stage_trace, "update_registry")
    /\ UNCHANGED <<manifest_before, response>>
    /\ LET verification == state.verification_result
       IN  IF verification = NoneValue \/ ~verification.passed THEN
               /\ state' = [state EXCEPT !.registry_updated = FALSE]
               /\ UNCHANGED manifest
           ELSE IF manual_approval THEN
               /\ state' = [state EXCEPT !.registry_updated = FALSE]
               /\ UNCHANGED manifest
           ELSE IF verification.tool_name \in ManifestNames(manifest) THEN
               /\ state' = [state EXCEPT !.registry_updated = FALSE]
               /\ UNCHANGED manifest
           ELSE
               \/ /\ manifest' = [exists |-> TRUE,
                                  entries |-> Append(manifest.entries,
                                                  ManifestEntry(verification.tool_name))]
                  /\ state' = [state EXCEPT !.registry_updated = TRUE]
               \/ /\ state' = [state EXCEPT !.registry_updated = FALSE,
                                            !.error = "Registry update failed"]
                  /\ UNCHANGED manifest
    /\ graph_node' = "END"
    /\ UNCHANGED <<generated, verified, registry, cycles>>
    /\ UNCHANGED <<verifierVars, lifecycleVars, gapVars, watcherVars>>

\* load_approved_generated_tools lines 88-121: for each manifest entry whose
\* file GENERATED_TOOLS_DIR/<tool_name>.py exists, the module is imported
\* and its tool registered.
LoadApproved(m, files) ==
    [n \in ManifestNames(m) \cap DOMAIN files |-> files[n]]

\* build_default_registry lines 156-175, at the start of a pipeline run.
LoadRegistry ==
    /\ graph_node \in {"END", "crashed"}
    /\ registry' = LoadApproved(manifest, generated)
    /\ registry' # registry
    /\ UNCHANGED <<state, graph_node, generated, manifest, verified, cycles>>
    /\ UNCHANGED <<stage_trace, manifest_before, response>>
    /\ UNCHANGED <<verifierVars, lifecycleVars, gapVars, watcherVars>>

(***************************************************************************)
(* Gap analyzer (tool_gap_analyzer.py).  A number that the code holds as a *)
(* float is kept as an exact fraction; a rationale is the sequence of the  *)
(* lower-case words of its text.                                           *)
(***************************************************************************)
_MIN_RUNS == 5

_IMPLICIT_CALC_KEYWORDS ==
    {"probability", "convert", "implied odds", "calculate", "compute", "multiply",
     "divide", "percentage", "ratio", "normalize", "weighted average",
     "expected value"}

Frac(n, d) == [num |-> n, den |-> d]
FracLess(a, b) == a.num * b.den < b.num * a.den

\* min(1.0, x)
MinOne(x) == IF FracLess(x, Frac(1, 1)) THEN x ELSE Frac(1, 1)

\* A parsed line: a JSON object with the fields the passes read (scores in
\* hundredths), or a JSON value that is not an object.
ObjectRecord(final_score, threshold, total_tokens_used, reasoning_segments) ==
    [kind |-> "object", final_score |-> final_score, threshold |-> threshold,
     total_tokens_used |-> total_tokens_used,
     reasoning_segments |-> reasoning_segments]

NonObject == [kind |-> "non_object"]

\* Rationales: one with two calculation keywords, one without any, and "".
CalcRationale == <<"compute", "the", "ratio", "now">>
PlainRationale == <<"no", "edge", "here">>
\* one rationale that repeats its own trigrams
LoopRationale == <<"check", "odds", "check", "odds", "check", "odds">>

SampleRecords ==
    { ObjectRecord(52, 50, 100, CalcRationale),
      ObjectRecord(90, 50, 100, CalcRationale),
      ObjectRecord(90, 50, 0, PlainRationale),
      ObjectRecord(52, 50, 0, <<>>),
      ObjectRecord(55, 50, 0, LoopRationale),
      NonObject }

\* Lines of the log file: a JSON value, a blank line, a line json.loads
\* refuses with JSONDecodeError, a line that is not valid UTF-8.
JsonLine(value) == [line |-> "json", value |-> value]
BlankLine == [line |-> "blank"]
MalformedLine == [line |-> "malformed"]
UndecodableLine == [line |-> "undecodable"]

SampleLines ==
    {JsonLine(r) : r \in SampleRecords} \cup {BlankLine, MalformedLine, UndecodableLine}

MissingLog == [exists |-> FALSE, lines |-> <<>>]
LogFile(lines) == [exists |-> TRUE, lines |-> lines]
LogFiles == {MissingLog} \cup {LogFile(l) : l \in SeqsUpTo(SampleLines, MaxLines)}

\* The values of the lines kept by the loop at lines 259-266, in file order.
RECURSIVE ParsedValues(_)
ParsedValues(lines) ==
    IF lines = <<>> THEN <<>>
    ELSE IF Head(lines).line = "json"
         THEN <<Head(lines).value>> \o ParsedValues(Tail(lines))
         ELSE ParsedValues(Tail(lines))

\* _load_entries lines 252-268.  Only JSONDecodeError is caught: decoding
\* the file as UTF-8 while iterating over it raises out of the function.
_load_entries(file) ==
    IF ~file.exists THEN [raised |-> FALSE, exc |-> "None", entries |-> <<>>]
    ELSE IF \E i \in 1..Len(file.lines) : file.lines[i].line = "undecodable"
    THEN [raised |-> TRUE, exc |-> "UnicodeDecodeError", entries |-> <<>>]
    ELSE [raised |-> FALSE, exc |-> "None", entries |-> ParsedValues(file.lines)]

GapReport(problem_detected, evidence, estimated_token_waste, priority_score) ==
    [problem_detected |-> problem_detected, evidence |-> evidence,
     estimated_token_waste |-> estimated_token_waste,
     priority_score |-> priority_score]

Abs(x) == IF x < 0 THEN -x ELSE x

\* Pairs of hundredths exactly 0.05 apart whose difference, computed in
\* binary floating point, is above the float 0.05:
\* 0.55 - 0.5 = 0.050000000000000044, while 0.5 - 0.45 = 0.04999999999999999.
FloatAboveMargin == {<<55, 50>>, <<50, 55>>}

\* Mutant: the margin is 0.5.
CloseCall_WiderMargin(score, threshold) == Abs(score - threshold) <= 50

\* abs(score - threshold) <= 0.05, line 128 (scores in hundredths)
CloseCall(score, threshold) ==
    \/ Abs(score - threshold) < 5
    \/ Abs(score - threshold) = 5 /\ <<score, threshold>> \notin FloatAboveMargin

\* Indices of a list that satisfy a test are counted with Cardinality.
\* _detect_low_confidence lines 120-145
_detect_low_confidence(es) ==
    LET total == Len(es)
        close_calls == Cardinality({i \in 1..total :
                           CloseCall(es[i].final_score, es[i].threshold)})
    IN  IF total = 0 \/ 10 * close_calls < 3 * total THEN NoneValue
        ELSE GapReport("High frequency of borderline predictions (score near threshold)",
                       [close_call_count |-> close_calls, total_runs |-> total],
                       Frac(0, 1),
                       MinOne(Frac(6 * close_calls, 5 * total)))

RECURSIVE SumOver(_, _)
SumOver(f, S) ==
    IF S = {} THEN 0
    ELSE LET x == CHOOSE y \in S : TRUE IN f[x] + SumOver(f, S \ {x})

\* Mutant: the 80th percentile is taken.
P90Index_Eighty(n) == IF (8 * n) \div 10 < n - 1 THEN (8 * n) \div 10 ELSE n - 1

\* min(int(len(sorted_tokens) * 0.9), len(sorted_tokens) - 1), lines 157-158
P90Index(n) == IF (9 * n) \div 10 < n - 1 THEN (9 * n) \div 10 ELSE n - 1

\* _detect_high_token_usage lines 148-176
_detect_high_token_usage(es) ==
    LET positive == {i \in 1..Len(es) : es[i].total_tokens_used > 0}
        tokens == [i \in positive |-> es[i].total_tokens_used]
        n == Cardinality(positive)
        p90_idx == P90Index(n)
        \* sorted_tokens[p90_idx]: the value with at most p90_idx samples
        \* below it and more than p90_idx samples not above it
        p90 == CHOOSE v \in {tokens[i] : i \in positive} :
                   /\ Cardinality({i \in positive : tokens[i] < v}) <= p90_idx
                   /\ Cardinality({i \in positive : tokens[i] <= v}) > p90_idx
        high == {i \in positive : tokens[i] > p90}
        high_count == Cardinality(high)
        total_tokens == SumOver(tokens, positive)
        \* waste = sum(t - mean for t > p90), as a fraction over n
        waste == Frac(n * SumOver(tokens, high) - high_count * total_tokens, n)
    IN  IF n < 3 THEN NoneValue
        ELSE IF high_count < 2 THEN NoneValue
        ELSE GapReport("Repeated high token usage runs detected",
                       [p90_tokens |-> p90, high_usage_count |-> high_count],
                       waste,
                       MinOne(Frac(2 * n * total_tokens + 3 * waste.num,
                                   5 * n * total_tokens)))

\* The trigrams of one rationale, by position.
Trigram(words, i) == <<words[i], words[i + 1], words[i + 2]>>
TrigramPositions(words) == IF Len(words) < 3 THEN {} ELSE 1..(Len(words) - 2)

\* all_ngrams[gram] of lines 181-191: occurrences over all entries.
NgramCount(es, gram) ==
    Cardinality({<<e, i>> \in (1..Len(es)) \X (1..MaxLines + 4) :
                    /\ i \in TrigramPositions(es[e].reasoning_segments)
                    /\ Trigram(es[e].reasoning_segments, i) = gram})

AllNgrams(es) ==
    UNION {{Trigram(es[e].reasoning_segments, i) :
               i \in TrigramPositions(es[e].reasoning_segments)} : e \in 1..Len(es)}

\* _detect_repeated_reasoning lines 179-210
_detect_repeated_reasoning(es) ==
    LET repeated == {g \in AllNgrams(es) : 2 * NgramCount(es, g) >= Len(es)}
        counts == [g \in repeated |-> NgramCount(es, g)]
    IN  IF Cardinality(repeated) < 2 THEN NoneValue
        ELSE GapReport("Repeated reasoning patterns across runs suggest missing tooling",
                       [top_repeated_trigrams |-> counts,
                        unique_repeated_count |-> Cardinality(repeated)],
                       Frac(3 * SumOver(counts, repeated), 1),
                       MinOne(Frac(Cardinality(repeated), 10)))

\* Mutant: only the last word of the rationale is looked at.
KeywordCount_LastWordOnly(words, kw) ==
    IF words # <<>> /\ words[Len(words)] = kw THEN 1 ELSE 0

\* rationale.count(kw): in the sample rationales a keyword occurs in the
\* text exactly where it is one of the words.
KeywordCount(words, kw) == Cardinality({i \in 1..Len(words) : words[i] = kw})

\* _detect_implicit_calculations lines 213-245
_detect_implicit_calculations(es) ==
    LET hits(e) == {kw \in _IMPLICIT_CALC_KEYWORDS :
                       KeywordCount(es[e].reasoning_segments, kw) > 0}
        runs_with_hits == Cardinality({e \in 1..Len(es) : hits(e) # {}})
        found == UNION {hits(e) : e \in 1..Len(es)}
        keyword_hits == [kw \in found |->
            SumOver([e \in 1..Len(es) |-> KeywordCount(es[e].reasoning_segments, kw)],
                    1..Len(es))]
    IN  IF Len(es) = 0 \/ 5 * runs_with_hits < 2 * Len(es) THEN NoneValue
        ELSE GapReport("Agent frequently performs implicit calculations that a tool could handle",
                       [keyword_hits |-> keyword_hits,
                        runs_with_calculations |-> runs_with_hits,
                        total_runs |-> Len(es)],
                       Frac(5 * SumOver(keyword_hits, found), 1),
                       MinOne(Frac(runs_with_hits, Len(es))))

\* The passes in the order analyze_gaps calls them, lines 72-90.
PassOrder == <<"low_confidence", "high_token_usage", "repeated_reasoning",
               "implicit_calculations">>

Detect(pass, es) ==
    CASE pass = "low_confidence" -> _detect_low_confidence(es)
      [] pass = "high_token_usage" -> _detect_high_token_usage(es)
      [] pass = "repeated_reasoning" -> _detect_repeated_reasoning(es)
      [] pass = "implicit_calculations" -> _detect_implicit_calculations(es)

\* e.get(...) on an entry that is not a dict raises AttributeError; every
\* pass reads every entry.
PassRaises(es) == \E i \in 1..Len(es) : es[i].kind # "object"

\* Mutant: among the candidates with the highest priority, the call count
\* decides between the first and the last.
Best_TieByCallCount(cands) ==
    cands[CHOOSE i \in 1..Len(cands) :
              /\ \A j \in 1..Len(cands) :
                    ~FracLess(cands[i].priority_score, cands[j].priority_score)
              /\ \A j \in 1..Len(cands) :
                    (cands[j].priority_score = cands[i].priority_score) =>
                        IF gap_calls = 1 THEN i <= j ELSE i >= j]

\* Mutant: the last of the candidates with the highest priority.
Best_LastOfTies(cands) ==
    cands[CHOOSE i \in 1..Len(cands) :
              /\ \A j \in 1..Len(cands) :
                    ~FracLess(cands[i].priority_score, cands[j].priority_score)
              /\ \A j \in (i + 1)..Len(cands) :
                    FracLess(cands[j].priority_score, cands[i].priority_score)]

\* candidates.sort(key=priority_score, reverse=True); candidates[0]: the
\* sort is stable, so the first of the candidates with the highest priority.
Best(cands) ==
    cands[CHOOSE i \in 1..Len(cands) :
              /\ \A j \in 1..Len(cands) :
                    ~FracLess(cands[i].priority_score, cands[j].priority_score)
              /\ \A j \in 1..(i - 1) :
                    FracLess(cands[j].priority_score, cands[i].priority_score)]

GapRunning == [kind |-> "running"]
GapReturned(value) == [kind |-> "returned", value |-> value]
GapRaised(exc) == [kind |-> "raised", exc |-> exc]

\* analyze_gaps lines 59-60
GapLoad ==
    /\ gap_pc = "load"
    /\ LET loaded == _load_entries(log_file)
       IN  IF loaded.raised
           THEN /\ gap_result' = GapRaised(loaded.exc)
                /\ gap_pc' = "done"
                /\ UNCHANGED entries
           ELSE /\ entries' = loaded.entries
                /\ gap_pc' = "floor"
                /\ UNCHANGED gap_result
    /\ UNCHANGED <<log_file, gap_args, candidates, passes_run>>
    /\ UNCHANGED <<prev_result, gap_calls>>
    /\ UNCHANGED <<verifierVars, lifecycleVars, cycleVars, watcherVars>>

\* analyze_gaps line 62
BelowFloor(count, min_runs) == count < min_runs

\* analyze_gaps lines 62-70
GapFloor ==
    /\ gap_pc = "floor"
    /\ IF BelowFloor(Len(entries), gap_args.min_runs)
       THEN /\ gap_result' = GapReturned(NoneValue)
            /\ gap_pc' = "done"
       ELSE /\ gap_pc' = PassOrder[1]
            /\ UNCHANGED gap_result
    /\ UNCHANGED <<log_file, gap_args, entries, candidates, passes_run>>
    /\ UNCHANGED <<prev_result, gap_calls>>
    /\ UNCHANGED <<verifierVars, lifecycleVars, cycleVars, watcherVars>>

\* analyze_gaps lines 72-90: one detection pass and the append of its report.
GapPass ==
    /\ \E k \in 1..Len(PassOrder) :
          /\ gap_pc = PassOrder[k]
          /\ passes_run' = Append(passes_run, PassOrder[k])
          /\ IF PassRaises(entries)
             THEN /\ gap_result' = GapRaised("AttributeError")
                  /\ gap_pc' = "done"
                  /\ UNCHANGED candidates
             ELSE /\ candidates' = IF Detect(PassOrder[k], entries) = NoneValue
                                   THEN candidates
                                   ELSE Append(candidates, Detect(PassOrder[k], entries))
                  /\ gap_pc' = IF k < Len(PassOrder) THEN PassOrder[k + 1] ELSE "select"
                  /\ UNCHANGED gap_result
    /\ UNCHANGED <<log_file, gap_args, entries>>
    /\ UNCHANGED <<prev_result, gap_calls>>
    /\ UNCHANGED <<verifierVars, lifecycleVars, cycleVars, watcherVars>>

\* analyze_gaps lines 92-113
GapSelect ==
    /\ gap_pc = "select"
    /\ gap_result' =
           IF candidates = <<>> THEN GapReturned(NoneValue)
           ELSE IF FracLess(Best(candidates).priority_score, gap_args.gap_threshold)
           THEN GapReturned(NoneValue)
           ELSE GapReturned(Best(candidates))
    /\ gap_pc' = "done"
    /\ UNCHANGED <<log_file, gap_args, entries, candidates, passes_run>>
    /\ UNCHANGED <<prev_result, gap_calls>>
    /\ UNCHANGED <<verifierVars, lifecycleVars, cycleVars, watcherVars>>

\* A further call of analyze_gaps with the same arguments on the same log:
\* entries and candidates are locals of the call (lines 60 and 70), created
\* anew.
GapCallAgain ==
    /\ gap_pc = "done"
    /\ gap_calls < MaxGapCalls
    /\ gap_calls' = gap_calls + 1
    /\ prev_result' = gap_result
    /\ gap_result' = GapRunning
    /\ gap_pc' = "load"
    /\ entries' = <<>>
    /\ candidates' = <<>>
    /\ passes_run' = <<>>
    /\ UNCHANGED <<log_file, gap_args>>
    /\ UNCHANGED <<verifierVars, lifecycleVars, cycleVars, watcherVars>>

\* _detect_high_token_usage called on a corpus by itself.
HighTokenPass ==
    /\ gap_pc = "high_token_usage alone"
    /\ passes_run' = <<"high_token_usage">>
    /\ candidates' = IF _detect_high_token_usage(entries) = NoneValue
                      THEN <<>>
                      ELSE <<_detect_high_token_usage(entries)>>
    /\ gap_pc' = "done"
    /\ UNCHANGED <<log_file, gap_args, entries, gap_result, prev_result, gap_calls>>
    /\ UNCHANGED <<verifierVars, lifecycleVars, cycleVars, watcherVars>>

\* The arguments of a call: min_runs below the default and the default,
\* gap_threshold in the middle and near the top of [0, 1].
GapArgs ==
    {[min_runs |-> m, gap_threshold |-> t] :
        m \in {2, _MIN_RUNS}, t \in {Frac(1, 2), Frac(9, 10)}}

\* analyze_gaps is not running (the other subsystems' specifications).
GapIdle ==
    /\ log_file = MissingLog
    /\ gap_args = [min_runs |-> _MIN_RUNS, gap_threshold |-> Frac(1, 2)]
    /\ gap_pc = "idle"
    /\ entries = <<>>
    /\ candidates = <<>>
    /\ passes_run = <<>>
    /\ gap_result = GapRunning
    /\ prev_result = GapRunning
    /\ gap_calls = 0

(***************************************************************************)
(* Watcher: watch_market(client, market_id, threshold, poll_interval,      *)
(* timeout, max_ticks) of engine/watcher.py.  Times are whole seconds and  *)
(* prices are cents.                                                       *)
(***************************************************************************)
WATCHER_POLL_INTERVAL_SEC == 30

WATCHER_TIMEOUT_SEC == 300

\* The largest max_ticks a call is given.
MaxTicks == 3

\* What client.get_market_price returns, and the thresholds of a call.
WatchPrices == {40, 60, 70}

WatchThresholds == {60}

\* The seconds a reading of time.monotonic() can be later than the previous
\* one: none to speak of, or a slow request to the exchange.
ClockDelays == {0, 120}

Timeouts == {0, WATCHER_TIMEOUT_SEC}

WatchArgs ==
    [threshold : WatchThresholds, poll_interval : {WATCHER_POLL_INTERVAL_SEC},
     timeout : Timeouts, max_ticks : 0..MaxTicks]

WatcherTick(price, threshold, triggered) ==
    [polled_price |-> price, threshold |-> threshold, triggered |-> triggered]

\* Head of the loop: elapsed is read from the clock, then the timeout and
\* the cap on polls are tested, each ending the loop.
WatchLoop ==
    /\ watch_pc = "loop"
    /\ \E late \in ClockDelays :
          LET elapsed == clock + late IN
          /\ clock' = elapsed
          /\ watch_pc' = IF elapsed >= watch_args.timeout THEN "returned"
                         ELSE IF tick_count >= watch_args.max_ticks THEN "returned"
                         ELSE "poll"
    /\ UNCHANGED <<watch_args, ticks, tick_count, polls>>
    /\ UNCHANGED <<verifierVars, lifecycleVars, cycleVars, gapVars>>

\* Mutant: a triggered tick does not end the loop.
WatchPoll_KeepsPolling ==
    /\ watch_pc = "poll"
    /\ \E price \in WatchPrices :
          LET triggered == price >= watch_args.threshold IN
          /\ ticks' = Append(ticks, WatcherTick(price, watch_args.threshold, triggered))
          /\ polls' = Append(polls, price)
          /\ tick_count' = tick_count + 1
          /\ watch_pc' = "sleep"
    /\ UNCHANGED <<watch_args, clock>>
    /\ UNCHANGED <<verifierVars, lifecycleVars, cycleVars, gapVars>>

\* One poll: the price is fetched, the tick is appended and counted, and a
\* triggered tick ends the loop.
WatchPoll ==
    /\ watch_pc = "poll"
    /\ \E price \in WatchPrices :
          LET triggered == price >= watch_args.threshold IN
          /\ ticks' = Append(ticks, WatcherTick(price, watch_args.threshold, triggered))
          /\ polls' = Append(polls, price)
          /\ tick_count' = tick_count + 1
          /\ watch_pc' = IF triggered THEN "returned" ELSE "sleep"
    /\ UNCHANGED <<watch_args, clock>>
    /\ UNCHANGED <<verifierVars, lifecycleVars, cycleVars, gapVars>>

\* The client's call raises (the request fails, or the client has no
\* get_market_price): nothing catches it and watch_market raises.
WatchPollRaises ==
    /\ watch_pc = "poll"
    /\ watch_pc' = "raised"
    /\ UNCHANGED <<watch_args, ticks, tick_count, clock, polls>>
    /\ UNCHANGED <<verifierVars, lifecycleVars, cycleVars, gapVars>>

\* After a tick that did not trigger: the clock is read again, and the
\* loop sleeps poll_interval if another poll can follow within the timeout.
WatchSleep ==
    /\ watch_pc = "sleep"
    /\ \E late \in ClockDelays :
          LET now == clock + late IN
          clock' = IF /\ tick_count < watch_args.max_ticks
                      /\ now + watch_args.poll_interval < watch_args.timeout
                   THEN now + watch_args.poll_interval
                   ELSE now
    /\ watch_pc' = "loop"
    /\ UNCHANGED <<watch_args, ticks, tick_count, polls>>
    /\ UNCHANGED <<verifierVars, lifecycleVars, cycleVars, gapVars>>

\* No watcher is running (the other subsystems' specifications).
WatcherIdle ==
    /\ watch_args = [threshold |-> 60, poll_interval |-> WATCHER_POLL_INTERVAL_SEC,
                     timeout |-> WATCHER_TIMEOUT_SEC, max_ticks |-> 0]
    /\ watch_pc = "idle"
    /\ ticks = <<>>
    /\ tick_count = 0
    /\ clock = 0
    /\ polls = <<>>

(***************************************************************************)
(* Candidate files.                                                        *)
(***************************************************************************)
File(read, parse, nodes) == [read |-> read, parse |-> parse, nodes |-> nodes]

\* Files that cannot be inspected: unreadable (missing, not UTF-8), or read
\* but refused by ast.parse with SyntaxError or with another exception
\* (RecursionError or MemoryError on deep nesting).
BrokenFiles ==
    { File("OSError", "ok", <<>>), File("UnicodeDecodeError", "ok", <<>>),
      File("ok", "SyntaxError", <<>>), File("ok", "RecursionError", <<>>) }

ParsedFiles == {File("ok", "ok", nodes) : nodes \in SeqsUpTo(Nodes, MaxNodes)}

AllFiles == BrokenFiles \cup ParsedFiles

\* The files the whole verifier is run on: the broken ones, a clean one, and
\* one per kind of static violation.
SampleFiles ==
    BrokenFiles \cup
    { File("ok", "ok", <<OtherNode>>),
      File("ok", "ok", << ImportNode(<< <<"os">> >>) >>),
      File("ok", "ok", << CallNode(NameFunc("eval"), << StrConst(<<"1">>) >>, <<>>) >>) }

VerifierFresh(files) ==
    /\ tool_file \in files
    /\ manual_approval \in BOOLEAN
    /\ pc = "check_ast"
    /\ checks = [p \in {} |-> TRUE]
    /\ status = "running"
    /\ result = NoResult
    /\ thread = "unstarted"
    /\ result_holder = EmptyHolder
    /\ deadline = "not_reached"
    /\ outputs = <<>>
    /\ calls = <<>>
    /\ events = <<>>
    /\ pending = {}

\* No verification is under way (the other subsystems' specifications).
VerifierIdle == VerifierFresh({File("ok", "ok", <<>>)})

InitVerifierWith(files) ==
    /\ VerifierFresh(files)
    /\ LifecycleIdle
    /\ CycleIdle
    /\ GapIdle
    /\ WatcherIdle

Init == InitVerifierWith(SampleFiles)

VerifierStep ==
    \/ AstInspection
    \/ LoadModule
    \/ StartThread
    \/ WorkerInstantiate
    \/ WorkerRun
    \/ WorkerExit
    \/ JoinReturns
    \/ JoinTimesOut
    \/ CheckAlive
    \/ DeterminismRun
    \/ DeterminismCompare
    \/ Approve

Next == VerifierStep

\* verify_tool on one candidate, with the sandbox worker interleaved.
Spec == Init /\ [][Next]_vars

\* The verifier thread, the worker thread and the join timer are all
\* scheduled: whatever step is possible is eventually taken.
FairSpec == Spec /\ WF_vars(Next)

\* Static inspection alone, over every candidate source within the bounds.
InitAst == InitVerifierWith(AllFiles)

SpecAst == InitAst /\ [][AstInspection]_vars

(***************************************************************************)
(* Properties of the verifier.                                             *)
(***************************************************************************)
Returned == status = "returned"
Rejected == Returned /\ ~result.passed
Accepted == Returned /\ result.passed

Happened(e) == Contains(events, e)
CandidateCodeRan ==
    Happened("exec_module") \/ Happened("instantiate") \/ Happened("run")
Recorded(phase, ok) == phase \in DOMAIN checks /\ checks[phase] = ok
Before(e, i) == \E j \in 1..(i - 1) : events[j] = e
Occurrences(e) == Cardinality({i \in 1..Len(events) : events[i] = e})

\* C2: the phases run in the order static inspection, sandbox execution,
\* determinism.  Candidate code is loaded, instantiated or invoked only after
\* static inspection has started and passed; the determinism phase starts
\* only after the sandbox phase has started and passed; a candidate that
\* fails static inspection is never loaded, instantiated or invoked.
C2_PhasesInOrder ==
    /\ \A i \in 1..Len(events) :
          /\ events[i] \in {"phase:runtime_sandbox", "exec_module",
                            "instantiate", "run"}
                => /\ Before("phase:ast_inspection", i)
                   /\ Recorded("ast_inspection", TRUE)
          /\ events[i] \in {"exec_module", "instantiate", "run"}
                => Before("phase:runtime_sandbox", i)
          /\ events[i] = "phase:determinism"
                => /\ Before("phase:runtime_sandbox", i)
                   /\ Recorded("runtime_sandbox", TRUE)
    /\ Recorded("ast_inspection", FALSE) => ~CandidateCodeRan
    /\ Recorded("runtime_sandbox", FALSE) => ~Happened("phase:determinism")

C2_Witness ==
    /\ Accepted
    /\ Happened("phase:determinism")
    /\ Occurrences("run") = 1 + TOOL_VERIFY_DETERMINISM_RUNS

PhasePrefix ==
    <<"AST inspection failed", "Runtime sandbox failed", "Determinism check failed">>

\* The result is a rejection at phase number k.
RejectedAt(k) ==
    /\ Rejected
    /\ DOMAIN result.checks = {PhaseNames[j] : j \in 1..k}
    /\ \A j \in 1..(k - 1) : result.checks[PhaseNames[j]] = TRUE
    /\ result.checks[PhaseNames[k]] = FALSE
    /\ result.rejection_reason # None
    /\ result.rejection_reason.prefix = PhasePrefix[k]

\* C3: the first failing phase is terminal.  Every result with passed = false
\* has true for each phase before the failing one, false for the failing
\* phase, no entry for a later phase, and a reason that is not None and names
\* the failing phase; no phase is started twice.
C3_FirstFailureTerminal ==
    /\ Rejected => \E k \in 1..3 : RejectedAt(k)
    /\ \A k \in 1..3 : Occurrences("phase:" \o PhaseNames[k]) <= 1

C3_Witness == RejectedAt(3) /\ Len(outputs) = 2

AllChecksTrue(chk) ==
    /\ DOMAIN chk = {PhaseNames[j] : j \in 1..3}
    /\ \A ph \in DOMAIN chk : chk[ph] = TRUE

\* C4: for every result returned, passed is true iff checks holds all three
\* phases and all are true, and iff rejection_reason is None.
C4_PassedIffAllChecks ==
    Returned =>
        /\ result.passed <=> AllChecksTrue(result.checks)
        /\ result.passed <=> (result.rejection_reason = None)

C4_Witness == Accepted /\ AllChecksTrue(result.checks) /\ ~manual_approval

(***************************************************************************)
(* C5: deny-listed imports.  Stated over the source alone, independently   *)
(* of how the inspection walks it.                                         *)
(***************************************************************************)
DenyList ==
    {"os", "subprocess", "sys", "shutil", "socket", "http", "requests",
     "urllib", "random"}

\* The source statement `node` imports module m (import m, import m.x,
\* from m import ..., from m.x import ...).
Imports(node, m) ==
    \/ /\ node.type = "Import"
       /\ \E a \in 1..Len(node.names) : node.names[a][1] = m
    \/ /\ node.type = "ImportFrom"
       /\ node.module # <<>>
       /\ node.module[1] = m

Parsed == tool_file.read = "ok" /\ tool_file.parse = "ok"

DeniedImports ==
    {m \in DenyList : \E i \in 1..Len(tool_file.nodes) : Imports(tool_file.nodes[i], m)}

RejectedAtStaticInspectionOnly ==
    /\ Rejected
    /\ DOMAIN result.checks = {"ast_inspection"}
    /\ result.checks["ast_inspection"] = FALSE
    /\ result.rejection_reason.prefix = "AST inspection failed"

Inspected == pc # "check_ast"

\* C5 as claimed: the reason contains the name of every deny-listed module
\* the source imports.
C5_ReasonNamesTheModule ==
    (Inspected /\ Parsed) =>
        \A m \in DeniedImports :
            /\ RejectedAtStaticInspectionOnly
            /\ Contains(result.rejection_reason.detail, m)

\* What section 4.2 phase 1 of the design forbids in a node: (a) an import of
\* a deny-listed module, (b) a call of a deny-listed name or on a deny-listed
\* module, (c) open() with a constant write or append mode.
ForbiddenCalls == {"exec", "eval", "__import__", "compile", "globals", "locals"}

WritesOrAppends(arg) ==
    arg.kind = "Constant" /\ arg.isstr /\ \E c \in 1..Len(arg.value) : arg.value[c] \in {"w", "a"}

Violation(node) ==
    \/ \E m \in DenyList : Imports(node, m)
    \/ /\ node.type = "Call"
       /\ \/ node.func.kind = "Name" /\ node.func.id \in ForbiddenCalls
          \/ node.func.kind = "Attribute" /\ node.func.attr \in ForbiddenCalls
          \/ /\ node.func.kind = "Attribute"
             /\ node.func.value.kind = "Name"
             /\ node.func.value.id \in DenyList
          \/ /\ (\/ node.func.kind = "Name" /\ node.func.id = "open"
                 \/ node.func.kind = "Attribute" /\ node.func.attr = "open")
             /\ \/ Len(node.args) >= 2 /\ WritesOrAppends(node.args[2])
                \/ \E k \in 1..Len(node.keywords) :
                      node.keywords[k].arg = "mode" /\ WritesOrAppends(node.keywords[k].value)

\* The first deny-listed module an import statement names.
FirstDenied(node) ==
    IF node.type = "Import"
    THEN node.names[CHOOSE a \in 1..Len(node.names) :
                        /\ node.names[a][1] \in DenyList
                        /\ \A b \in 1..(a - 1) : node.names[b][1] \notin DenyList][1]
    ELSE node.module[1]

\* C5 (amended): a parseable candidate that imports a deny-listed module is
\* rejected at static inspection and checks has only the static-inspection
\* entry, false; the reason names the first violation in ast.walk order, so
\* it contains the module's name when that import is the first violation.
C5_RejectedAtStaticInspection ==
    (Inspected /\ Parsed /\ DeniedImports # {}) =>
        /\ RejectedAtStaticInspectionOnly
        /\ LET first == tool_file.nodes[FirstIndex({k \in 1..Len(tool_file.nodes) : Violation(tool_file.nodes[k])})]
           IN  first.type \in {"Import", "ImportFrom"} =>
                   /\ result.rejection_reason.kind \in
                          {"Blocked import", "Blocked import from"}
                   /\ Contains(result.rejection_reason.detail, FirstDenied(first))

C5_Witness ==
    /\ Inspected /\ Parsed
    /\ DeniedImports = {"os"}
    /\ Len(tool_file.nodes) = 2
    /\ tool_file.nodes[2] = ImportNode(<< <<"os", "path">> >>)
    /\ RejectedAtStaticInspectionOnly
    /\ Contains(result.rejection_reason.detail, "os")

\* C6 as claimed: verify_tool eventually returns (or at least ends) for every
\* candidate, whatever the candidate code does.
C6_AlwaysReturns == <>(pc = "done")

\* The sandbox invocation (instantiation and run on the worker thread) had
\* not completed when the timed join gave up.
IncompleteAtDeadline == deadline \in {"instantiating", "running", "hung"}

PastLivenessTest == pc \notin {"check_ast", "load", "start_thread", "join", "is_alive"}

TimedOutResult ==
    /\ RejectedAt(2)
    /\ result.rejection_reason.kind = "Tool execution timed out"

\* C7 as claimed: a candidate whose sandbox invocation has not completed when
\* the timeout elapses is rejected at phase 2 with a timeout reason, under
\* every interleaving of the worker and the verifier.
C7_TimeoutRejects ==
    (IncompleteAtDeadline /\ PastLivenessTest) => TimedOutResult

\* The vector the sandbox invocation returned, then those of the determinism
\* runs: every invocation verify_tool made, in order.
AllVectors == <<result_holder.output.output_vector>> \o outputs

DeterminismRunsDone == Returned /\ Len(outputs) = TOOL_VERIFY_DETERMINISM_RUNS

NonDeterministicResult ==
    /\ RejectedAt(3)
    /\ result.rejection_reason.kind = "Non-deterministic"

\* C8 as claimed: a candidate that returned different (well-formed) vectors
\* on repeated invocations, the sandbox invocation included, is rejected at
\* the determinism phase.
C8_AnyDivergenceRejected ==
    (/\ DeterminismRunsDone
     /\ \A i \in 1..Len(AllVectors) : AllVectors[i] \in GoodVectors
     /\ \E i \in 1..Len(AllVectors) : AllVectors[i] # AllVectors[1])
        => NonDeterministicResult

DivergentRuns == {i \in 1..Len(outputs) : outputs[i] # outputs[1]}

\* C8 (amended): a candidate whose determinism-phase runs all return and whose
\* vectors are not all equal to that of the phase's first run is rejected at
\* the determinism phase, with a reason naming run 1's vector and the first
\* run whose vector differs from it; the sandbox invocation's vector is not
\* part of the comparison.
C8_DeterminismRunsCompared ==
    (DeterminismRunsDone /\ DivergentRuns # {}) =>
        /\ NonDeterministicResult
        /\ \A i \in DivergentRuns : result.rejection_reason.detail.run <= i
        /\ result.rejection_reason.detail.run \in DivergentRuns
        /\ result.rejection_reason.detail.reference = outputs[1]
        /\ result.rejection_reason.detail.output =
               outputs[result.rejection_reason.detail.run]

C8_Witness ==
    /\ DeterminismRunsDone
    /\ DivergentRuns = {2, 3}
    /\ outputs[2] # outputs[3]
    /\ NonDeterministicResult
    /\ result.rejection_reason.detail.run = 2

\* C9 as claimed: verify_tool never raises past its boundary.
C9_NeverRaises == status # "raised"

(***************************************************************************)
(* The lifecycle manager's specification: one manager at a time on the     *)
(* ledger path, any sequence of public calls.                              *)
(***************************************************************************)
InitLifecycle ==
    /\ ledger \in InitialLedgers
    /\ records = _load(ledger)
    /\ last_call = NoCall
    /\ usage_events = 0
    /\ peer_records = EmptyTable
    /\ peer_events = 0
    /\ recorded = [n \in {} |-> 0]
    /\ reached_limit = {}
    /\ VerifierIdle
    /\ WatcherIdle
    /\ CycleIdle
    /\ GapIdle

\* A caller records one usage event.
RecordUsageCall ==
    /\ \E n \in ToolNames, sc \in Scores, c \in BOOLEAN, l \in Latencies,
          th \in Thresholds : RecordUsage(n, sc, c, l, th)
    /\ UNCHANGED <<verifierVars, cycleVars, gapVars, watcherVars>>

CheckDeprecationCall ==
    /\ \E n \in ToolNames : CheckDeprecation(n)
    /\ UNCHANGED <<verifierVars, cycleVars, gapVars, watcherVars>>

GetActiveToolsCall ==
    /\ GetActiveTools
    /\ UNCHANGED <<verifierVars, cycleVars, gapVars, watcherVars>>

NewManagerCall ==
    /\ NewManager
    /\ UNCHANGED <<verifierVars, cycleVars, gapVars, watcherVars>>

NextLifecycle ==
    \/ RecordUsageCall
    \/ CheckDeprecationCall
    \/ GetActiveToolsCall
    \/ NewManagerCall

SpecLifecycle == InitLifecycle /\ [][NextLifecycle]_vars

\* C10: after every record_usage call the tool's consecutive_underperformance
\* counter is 0 if score >= threshold and its previous value plus 1 if
\* score < threshold; a score equal to the threshold resets the counter.
C10_CounterResetOrIncrement ==
    last_call.op = "record_usage" =>
        LET now == records[last_call.tool_name].consecutive_underperformance
            was == last_call.before.consecutive_underperformance
        IN  /\ last_call.score_contribution >= last_call.underperformance_threshold
                => now = 0
            /\ last_call.score_contribution < last_call.underperformance_threshold
                => now = was + 1

\* A usage exactly at the threshold, after two underperforming usages, has
\* reset the counter.
C10_Witness ==
    /\ last_call.op = "record_usage"
    /\ last_call.score_contribution = last_call.underperformance_threshold
    /\ last_call.before.consecutive_underperformance = 2
    /\ records[last_call.tool_name].consecutive_underperformance = 0

\* The last call was check_deprecation on a tool that has a record.
CheckedKnownTool ==
    /\ last_call.op = "check_deprecation"
    /\ last_call.tool_name \in DOMAIN records

\* The tool got nothing but usages below the threshold, k of them so far.
OnlyUnderperformed(record, k) ==
    /\ record.usage_count = k
    /\ record.consecutive_underperformance = k

\* C11: for a fresh tool with k consecutive usages below the threshold and
\* nothing else, check_deprecation returns false for every k below the
\* deprecation limit and true at k equal to the limit; one further usage not
\* below the threshold sets the counter back to zero.
C11_DeprecationAtLimit ==
    /\ CheckedKnownTool =>
           \A k \in 0..EVOLUTION_DEPRECATION_RUNS :
               OnlyUnderperformed(records[last_call.tool_name], k) =>
                   (last_call.returned <=> k = EVOLUTION_DEPRECATION_RUNS)
    /\ ( /\ last_call.op = "record_usage"
         /\ OnlyUnderperformed(last_call.before, EVOLUTION_DEPRECATION_RUNS)
         /\ last_call.score_contribution >= last_call.underperformance_threshold )
       => records[last_call.tool_name].consecutive_underperformance = 0

\* check_deprecation has just returned true for a tool whose usages, exactly
\* as many as the limit, were all below the threshold.
C11_Witness ==
    /\ CheckedKnownTool
    /\ OnlyUnderperformed(records[last_call.tool_name], EVOLUTION_DEPRECATION_RUNS)
    /\ last_call.returned

\* C12: deprecation is one-way: once a tool's status is deprecated, no
\* record_usage or check_deprecation call, a usage that resets the counter
\* included, changes it back to active or pending.
C12_DeprecationOneWay ==
    [][\A n \in DOMAIN records :
          records[n].status = "DEPRECATED" =>
              /\ n \in DOMAIN records'
              /\ records'[n].status = "DEPRECATED"]_vars

\* A deprecated tool has had a usage that reset its counter and was then
\* checked again.
C12_Witness ==
    /\ CheckedKnownTool
    /\ records[last_call.tool_name].status = "DEPRECATED"
    /\ records[last_call.tool_name].consecutive_underperformance = 0
    /\ records[last_call.tool_name].usage_count > EVOLUTION_DEPRECATION_RUNS

\* C13 as claimed: in every reachable state a tool whose counter has reached
\* the limit is deprecated, and a tool whose counter never reached it is not.
C13_DeprecatedExactlyAtLimit ==
    \A n \in DOMAIN records :
        records[n].status = "DEPRECATED" <=> n \in reached_limit

\* C14 as claimed: check_deprecation returns true if and only if the tool's
\* status is deprecated when the call returns.
C14_ReturnsWhetherDeprecated ==
    CheckedKnownTool =>
        (last_call.returned <=> records[last_call.tool_name].status = "DEPRECATED")

\* C15: check_deprecation on a name with no lifecycle record returns false
\* and leaves the in-memory table and the persisted ledger unchanged.
C15_UnknownNameUntouched ==
    [][(last_call'.op = "check_deprecation" /\ last_call'.tool_name \notin DOMAIN records)
          => /\ ~last_call'.returned
             /\ records' = records
             /\ ledger' = ledger]_vars

\* check_deprecation was called for a name without a record while the table
\* holds another tool.
C15_Witness ==
    /\ last_call.op = "check_deprecation"
    /\ last_call.tool_name \notin DOMAIN records
    /\ DOMAIN records # {}
    /\ ~last_call.returned

\* C16 as claimed: get_active_tools returns exactly the names of the records
\* whose status is not deprecated, a pending record included.
C16_ActiveMeansNotDeprecated ==
    last_call.op = "get_active_tools" =>
        last_call.returned = {n \in DOMAIN records : records[n].status # "DEPRECATED"}

\* What a new manager constructed on the path would hold for a tool.
Reloaded(n) == _load(ledger)[n]

\* C17: with a single manager on the path, after every record_usage and every
\* status-changing check_deprecation the ledger equals the table: a new
\* manager on the path loads, for every tool, a record equal to the first
\* manager's (counts, counter and status).
C17_LedgerEqualsTable ==
    last_call.op \in {"record_usage", "check_deprecation"} =>
        /\ DOMAIN ledger = DOMAIN records
        /\ \A n \in DOMAIN records :
              /\ Reloaded(n).usage_count = records[n].usage_count
              /\ Reloaded(n).total_predictions = records[n].total_predictions
              /\ Reloaded(n).correct_predictions = records[n].correct_predictions
              /\ Reloaded(n).consecutive_underperformance
                     = records[n].consecutive_underperformance
              /\ Reloaded(n).status = records[n].status
              /\ Reloaded(n) = records[n]

\* check_deprecation has just changed a status, with two tools in the table.
C17_Witness ==
    /\ CheckedKnownTool
    /\ last_call.returned
    /\ records[last_call.tool_name].status = "DEPRECATED"
    /\ Cardinality(DOMAIN records) = 2
    /\ \E n \in DOMAIN records : records[n].status # "DEPRECATED"

(***************************************************************************)
(* Two managers opened on the same ledger path, their calls interleaved    *)
(* with nothing serializing them.                                          *)
(***************************************************************************)
InitTwoManagers ==
    /\ ledger \in InitialLedgers
    /\ records = _load(ledger)
    /\ peer_records = _load(ledger)
    /\ peer_events = 0
    /\ last_call = NoCall
    /\ usage_events = 0
    /\ recorded = [n \in {} |-> 0]
    /\ reached_limit = {}
    /\ VerifierIdle
    /\ WatcherIdle
    /\ CycleIdle
    /\ GapIdle

\* The callers of both managers use the default threshold (record_usage
\* line 45) and report correct predictions.
OwnRecordUsageCall ==
    /\ \E n \in ToolNames, sc \in Scores, l \in Latencies :
          RecordUsage(n, sc, TRUE, l, 0)
    /\ UNCHANGED <<verifierVars, cycleVars, gapVars, watcherVars>>

PeerRecordUsageCall ==
    /\ \E n \in ToolNames, sc \in Scores, l \in Latencies :
          PeerRecordUsage(n, sc, TRUE, l, 0)
    /\ UNCHANGED <<verifierVars, cycleVars, gapVars, watcherVars>>

PeerNewManagerCall ==
    /\ PeerNewManager
    /\ UNCHANGED <<verifierVars, cycleVars, gapVars, watcherVars>>

NextTwoManagers ==
    \/ OwnRecordUsageCall
    \/ CheckDeprecationCall
    \/ PeerRecordUsageCall
    \/ PeerNewManagerCall

SpecTwoManagers == InitTwoManagers /\ [][NextTwoManagers]_vars

\* The ledger holds exactly the tools of this table, with its usage counts.
WrittenFrom(table) ==
    /\ DOMAIN ledger = DOMAIN table
    /\ \A n \in DOMAIN table : ledger[n].usage_count = table[n].usage_count

\* Usage events recorded for a tool that the ledger does not account for.
LostUpdate(n) ==
    recorded[n] > (IF n \in DOMAIN ledger THEN ledger[n].usage_count ELSE 0)

\* C18: two managers on the same path race.  Each save rewrites the whole
\* ledger from the saving manager's own table, whatever the other manager
\* wrote; an interleaving after which the ledger misses a recorded usage
\* event is reachable.
C18_SaveRewritesWholeTable ==
    /\ last_call.op = "record_usage" => WrittenFrom(records)
    /\ last_call.op = "peer record_usage" => WrittenFrom(peer_records)

\* Both managers have recorded a usage and the ledger has lost one of them.
C18_Witness ==
    /\ peer_events > 0
    /\ usage_events > peer_events
    /\ \E n \in DOMAIN recorded : LostUpdate(n)

(***************************************************************************)
(* The evolution cycle's specification: cycles run one after another on    *)
(* the same generated-tools directory, and the registry is rebuilt between *)
(* them.                                                                   *)
(***************************************************************************)
InitCycle ==
    /\ VerifierIdle
    /\ WatcherIdle
    /\ LifecycleIdle
    /\ CycleIdle
    /\ GapIdle

NextCycle ==
    \/ StartCycle
    \/ AnalyzeLogs
    \/ ProposeTool
    \/ BuildTool
    \/ VerifyTool
    \/ UpdateRegistry
    \/ LoadRegistry

SpecCycle == InitCycle /\ [][NextCycle]_vars

\* C1 as claimed: after any sequence of evolution cycles, every source the
\* registry would load through the approved manifest has passed all three
\* verification phases.
C1_LoadableSourcesVerified ==
    graph_node = "END" =>
        \A n \in DOMAIN LoadApproved(manifest, generated) :
            LoadApproved(manifest, generated)[n] \in verified

(***************************************************************************)
(* The gap analyzer's specification: one call of analyze_gaps on every log *)
(* file within the bounds.                                                 *)
(***************************************************************************)
InitGaps ==
    /\ log_file \in LogFiles
    /\ gap_args \in GapArgs
    /\ gap_pc = "load"
    /\ entries = <<>>
    /\ candidates = <<>>
    /\ passes_run = <<>>
    /\ gap_result = GapRunning
    /\ prev_result = GapRunning
    /\ gap_calls = 1
    /\ VerifierIdle
    /\ WatcherIdle
    /\ LifecycleIdle
    /\ CycleIdle

NextGaps ==
    \/ GapLoad
    \/ GapFloor
    \/ GapPass
    \/ GapSelect
    \/ GapCallAgain

SpecGaps == InitGaps /\ [][NextGaps]_vars

\* The records of the log that can be read: the lines holding a JSON value.
ReadableRecords == ParsedValues(log_file.lines)

GapDone == gap_pc = "done"

\* C19 as claimed: analyze_gaps returns None whenever the corpus has fewer
\* than min_runs readable records, whatever they hold, and for a missing or
\* empty log file; no detection pass runs in that case.
C19_NoneBelowFloor ==
    (GapDone /\ Len(ReadableRecords) < gap_args.min_runs) =>
        /\ gap_result = GapReturned(NoneValue)
        /\ passes_run = <<>>

\* Priorities of the reports of the passes that do not abstain.
PassPriorities ==
    {Detect(PassOrder[k], ReadableRecords).priority_score :
        k \in {j \in 1..Len(PassOrder) : Detect(PassOrder[j], ReadableRecords) # NoneValue}}

\* C20 as claimed: with at least min_runs records analyze_gaps returns a
\* report whose priority is the maximum over the non-abstaining passes if
\* that maximum is at least gap_threshold, and None if every pass abstains
\* or the maximum is below gap_threshold.
C20_MaxPriorityOrNone ==
    (GapDone /\ Len(ReadableRecords) >= gap_args.min_runs) =>
        /\ gap_result.kind = "returned"
        /\ IF \A p \in PassPriorities : FracLess(p, gap_args.gap_threshold)
           THEN gap_result.value = NoneValue
           ELSE /\ gap_result.value # NoneValue
                /\ gap_result.value.priority_score \in PassPriorities
                /\ \A p \in PassPriorities :
                      ~FracLess(gap_result.value.priority_score, p)

C22_PassesIsolated ==
    (GapDone /\ Len(entries) >= gap_args.min_runs /\ PassRaises(entries)) =>
        /\ passes_run = PassOrder
        /\ gap_result.kind = "returned"

\* All four passes have run on a corpus of object records.
PassesDone == passes_run = PassOrder /\ ~PassRaises(entries)

Reported(label) ==
    \E c \in 1..Len(candidates) : candidates[c].problem_detected = label

ReportOf(label) ==
    candidates[CHOOSE c \in 1..Len(candidates) : candidates[c].problem_detected = label]

FracEq(a, b) == a.num * b.den = b.num * a.den

LowConfidenceLabel == "High frequency of borderline predictions (score near threshold)"

\* Records whose score is within 0.05 of their threshold, in exact arithmetic.
WithinMargin == {i \in 1..Len(entries) :
                    Abs(entries[i].final_score - entries[i].threshold) <= 5}

\* Records the pass counted as close calls.
CountedClose == {i \in 1..Len(entries) :
                    CloseCall(entries[i].final_score, entries[i].threshold)}

RepeatedReasoningLabel == "Repeated reasoning patterns across runs suggest missing tooling"

\* Records whose rationale holds the trigram.
RecordsWith(gram) ==
    {e \in 1..Len(entries) :
        \E i \in TrigramPositions(entries[e].reasoning_segments) :
            Trigram(entries[e].reasoning_segments, i) = gram}

\* C24 as claimed: the repeated-reasoning pass reports only if at least two
\* distinct trigrams each appear in at least 50% of the records; repeats
\* inside one record's rationale do not qualify a trigram.
C24_TrigramsAcrossRecords ==
    (PassesDone /\ Reported(RepeatedReasoningLabel)) =>
        Cardinality({g \in AllNgrams(entries) :
                        2 * Cardinality(RecordsWith(g)) >= Len(entries)}) >= 2

ImplicitCalculationLabel == "Agent frequently performs implicit calculations that a tool could handle"

\* Records whose rationale holds at least one calculation keyword.
RecordsWithKeyword ==
    {e \in 1..Len(entries) :
        \E i \in 1..Len(entries[e].reasoning_segments) :
            entries[e].reasoning_segments[i] \in _IMPLICIT_CALC_KEYWORDS}

\* C25: the implicit-calculation pass reports if and only if at least 40% of
\* all records, those with an empty rationale included in the total, hold a
\* calculation keyword; its priority is that ratio, 1 when every record
\* holds a keyword.
C25_ImplicitCalculationPass ==
    PassesDone =>
        /\ Reported(ImplicitCalculationLabel) <=>
              5 * Cardinality(RecordsWithKeyword) >= 2 * Len(entries)
        /\ Reported(ImplicitCalculationLabel) =>
              FracEq(ReportOf(ImplicitCalculationLabel).priority_score,
                     Frac(Cardinality(RecordsWithKeyword), Len(entries)))

\* The pass reports with ratio 2/3 on a corpus of three records, one of them
\* with an empty rationale.
C25_Witness ==
    /\ PassesDone
    /\ Reported(ImplicitCalculationLabel)
    /\ Len(entries) = 3
    /\ Cardinality(RecordsWithKeyword) = 2
    /\ \E e \in 1..Len(entries) : entries[e].reasoning_segments = <<>>

CycleEnded == graph_node = "END" /\ cycles > 0

Stages == <<"analyze_logs", "propose_tool", "build_tool", "verify_tool", "update_registry">>

StageRan(stage) == \E i \in 1..Len(stage_trace) : stage_trace[i] = stage

VerificationPassed ==
    state.verification_result # NoneValue /\ state.verification_result.passed

\* No gap, no spec, no built file, no verification result, or a result that
\* is a rejection.
CycleFailed ==
    \/ state.gap_report = NoneValue
    \/ state.tool_spec = NoneValue
    \/ state.tool_path = NoneValue
    \/ ~VerificationPassed

\* C26: a cycle changes the manifest only with a verification result that
\* has passed = true and with the manual-approval policy inactive; a cycle in
\* which analysis finds no gap, synthesis or build fails, or verification
\* rejects or raises ends with the manifest as it was and
\* registry_updated = false.
C26_ManifestOnlyOnAcceptance ==
    /\ (manifest # manifest_before) => (VerificationPassed /\ ~manual_approval)
    /\ (CycleEnded /\ CycleFailed) =>
           (manifest = manifest_before /\ ~state.registry_updated)

\* A second cycle ends on a rejection while the manifest holds the first
\* cycle's tool.
C26_Witness ==
    /\ CycleEnded
    /\ cycles = 2
    /\ state.verification_result # NoneValue
    /\ ~state.verification_result.passed
    /\ manifest.exists
    /\ manifest = manifest_before

\* C27 as claimed: a cycle that registers no tool because synthesis failed
\* or because verification rejected the candidate ends with a non-null error
\* in its final state.
C27_FailureCarriesError ==
    (/\ CycleEnded
     /\ StageRan("propose_tool")
     /\ ~state.registry_updated
     /\ \/ state.tool_spec = NoneValue
        \/ state.verification_result # NoneValue /\ ~state.verification_result.passed)
        => state.error # "None"

\* C28: within a cycle the stages run at most once each, in the order
\* analyze, propose, build, verify, update registry, and the manifest gains
\* at most one entry.
C28_StagesOnceInOrder ==
    /\ Len(stage_trace) <= Len(Stages)
    /\ \A i \in 1..Len(stage_trace) : stage_trace[i] = Stages[i]
    /\ Len(manifest.entries) <= Len(manifest_before.entries) + 1

\* A second cycle has run all five stages and added an entry.
C28_Witness ==
    /\ cycles = 2
    /\ stage_trace = Stages
    /\ Len(manifest.entries) = Len(manifest_before.entries) + 1

\* The accepted tool's name was in the manifest when the cycle started.
AcceptedDuplicate ==
    /\ CycleEnded
    /\ StageRan("update_registry")
    /\ VerificationPassed
    /\ ~manual_approval
    /\ \E i \in 1..Len(manifest_before.entries) :
          manifest_before.entries[i].tool_name = state.verification_result.tool_name

\* C29: registering a name that is already in the manifest leaves the
\* manifest unchanged and sets no error; the manifest never holds two
\* entries with the same tool_name.
C29_DuplicateIsNoOp ==
    /\ AcceptedDuplicate => (manifest = manifest_before /\ state.error = "None")
    /\ \A i, j \in 1..Len(manifest.entries) :
          (i # j) => (manifest.entries[i].tool_name # manifest.entries[j].tool_name)

C29_Witness == AcceptedDuplicate

\* verify_tool returned a result whose three checks are all true, under the
\* manual-approval policy.
AcceptedUnderPolicy ==
    /\ manual_approval
    /\ StageRan("verify_tool")
    /\ state.verification_result # NoneValue
    /\ AllChecksTrue(state.verification_result.checks)

\* C30: with the manual-approval policy active, a candidate that passes the
\* three phases is staged in the pending area, source and review summary,
\* the manifest is not modified in that cycle, and the result is the one
\* returned with the policy inactive: passed = true, no rejection reason.
C30_StagedNotRegistered ==
    AcceptedUnderPolicy =>
        /\ {PyFile(state.tool_spec.tool_name), ReviewFile(state.tool_spec.tool_name)}
               \subseteq pending
        /\ manifest = manifest_before
        /\ state.verification_result =
               VerificationResult(state.tool_spec.tool_name, TRUE,
                   [ph \in {PhaseNames[j] : j \in 1..3} |-> TRUE], None)

C30_Witness == AcceptedUnderPolicy /\ CycleEnded

\* The synthesis response of the cycle is one that ToolSpec must refuse.
RefusedResponse ==
    /\ response # NoneValue
    /\ ~response.deterministic \/ response.risk_level = "high"

\* C31: no ToolSpec with deterministic = false or risk_level = high exists
\* in a cycle's state, so none reaches build or verification; a cycle whose
\* synthesis response is one of these ends with an error, without a built
\* file, a verification or a registration.
C31_SpecRejectedAtConstruction ==
    /\ (state.tool_spec # NoneValue) =>
           (state.tool_spec.deterministic /\ state.tool_spec.risk_level # "high")
    /\ (CycleEnded /\ RefusedResponse) =>
           /\ state.tool_spec = NoneValue
           /\ state.tool_path = NoneValue
           /\ state.verification_result = NoneValue
           /\ ~state.registry_updated
           /\ manifest = manifest_before
           /\ state.error # "None"

\* A cycle has ended whose response was deterministic, well named and of
\* high risk.
C31_Witness ==
    /\ CycleEnded
    /\ response # NoneValue
    /\ response.risk_level = "high"
    /\ response.deterministic
    /\ response.tool_name \in ToolNames

\* The names of the model that end in "_tool".
HasToolSuffix(tool_name) == tool_name \in {"alpha_tool", "beta_tool"}

\* C32 as claimed: a synthesis response whose tool_name does not end in
\* "_tool" never becomes the ToolSpec of the cycle.
C32_NameSuffixValidated ==
    (state.tool_spec # NoneValue) => HasToolSuffix(state.tool_spec.tool_name)

\* C35 as claimed: when synthesis or build fails, the error of the final
\* state is the one of that stage; the later stages that have nothing to
\* work on do not replace it.
C35_FirstFailureReported ==
    (CycleEnded /\ StageRan("update_registry")) =>
        /\ (state.tool_spec = NoneValue) => state.error = "Tool spec generation failed"
        /\ (state.tool_spec # NoneValue /\ state.tool_path = NoneValue) =>
               state.error = "Tool build failed"

\* The records of the log that are JSON objects, in file order.
WellFormedRecords == SelectSeq(ReadableRecords, LAMBDA v : v.kind = "object")

\* C33 as claimed: reading the execution log skips every malformed line,
\* returns every well-formed record of the file and never fails as a whole
\* (the reader of the lifecycle ledger has the same loop).
C33_MalformedLinesSkipped ==
    (gap_pc # "load") =>
        /\ gap_result # GapRaised("UnicodeDecodeError")
        /\ entries = WellFormedRecords

(***************************************************************************)
(* The lifecycle manager with a process that can die while it saves.       *)
(***************************************************************************)
RecordUsageCrashesCall ==
    \E n \in ToolNames, sc \in Scores, c \in BOOLEAN, l \in Latencies, th \in Thresholds :
        RecordUsageCrashes(n, sc, c, l, th)

NextCrash ==
    \/ RecordUsageCall
    \/ CheckDeprecationCall
    \/ RecordUsageCrashesCall

SpecCrash == InitLifecycle /\ [][NextCrash]_vars

\* C34 as claimed: after a crash at any point of a save the persisted ledger
\* is the complete table from before the update or the complete table after
\* it, never an empty or partly written one.
C34_SaveCrashConsistent ==
    (last_call.op = "crash in _save") =>
        ledger \in {last_call.file_before, last_call.file_after}

(***************************************************************************)
(* The high-cost pass on corpora of up to MaxSamples positive token        *)
(* counts: low of 100 tokens, mid of 200, high of 300, and zero or one     *)
(* record without tokens.                                                  *)
(***************************************************************************)
TokenCorpus(low, mid, high, none) ==
    [i \in 1..(low + mid + high + none) |->
        ObjectRecord(90, 50,
            IF i <= low THEN 100
            ELSE IF i <= low + mid THEN 200
            ELSE IF i <= low + mid + high THEN 300
            ELSE 0,
            <<>>)]

InitHighCost ==
    /\ \E low, mid, high \in 0..MaxSamples, none \in 0..1 :
          /\ low + mid + high <= MaxSamples
          /\ entries = TokenCorpus(low, mid, high, none)
    /\ gap_pc = "high_token_usage alone"
    /\ log_file = MissingLog
    /\ gap_args = [min_runs |-> _MIN_RUNS, gap_threshold |-> Frac(1, 2)]
    /\ candidates = <<>>
    /\ passes_run = <<>>
    /\ gap_result = GapRunning
    /\ prev_result = GapRunning
    /\ gap_calls = 0
    /\ VerifierIdle
    /\ WatcherIdle
    /\ LifecycleIdle
    /\ CycleIdle

SpecHighCost == InitHighCost /\ [][HighTokenPass]_vars

PositiveSamples == {i \in 1..Len(entries) : entries[i].total_tokens_used > 0}

HighTokenPassRan == passes_run = <<"high_token_usage">>

\* C36: the high-cost pass abstains on every corpus with fewer than 21
\* records of positive token cost.
C36_HighCostNeeds21 ==
    (HighTokenPassRan /\ Cardinality(PositiveSamples) < 21) => candidates = <<>>

\* The pass has abstained on 20 samples of three different costs, two of
\* them at the highest cost.
C36_Witness ==
    /\ HighTokenPassRan
    /\ Cardinality(PositiveSamples) = 20
    /\ Cardinality({i \in PositiveSamples : entries[i].total_tokens_used = 300}) = 2
    /\ Cardinality({i \in PositiveSamples : entries[i].total_tokens_used = 200}) = 9
    /\ candidates = <<>>

\* The labels of the four passes, in the order analyze_gaps calls them.
PassLabels ==
    <<LowConfidenceLabel, "Repeated high token usage runs detected",
      RepeatedReasoningLabel, ImplicitCalculationLabel>>

PassRank(label) == CHOOSE k \in 1..Len(PassLabels) : PassLabels[k] = label

ReturnedReport ==
    GapDone /\ gap_result.kind = "returned" /\ gap_result.value # NoneValue

\* C37: when several passes report the same highest priority, analyze_gaps
\* returns the report of the pass that comes first in the order
\* low-confidence, high-cost, repeated-reasoning, implicit-calculation.
C37_FirstPassWinsTies ==
    ReturnedReport =>
        \A c \in 1..Len(candidates) :
            FracEq(candidates[c].priority_score, gap_result.value.priority_score) =>
                PassRank(gap_result.value.problem_detected)
                    <= PassRank(candidates[c].problem_detected)

\* A report has been returned while a later pass reported the same priority.
C37_Witness ==
    /\ ReturnedReport
    /\ \E c \in 1..Len(candidates) :
          /\ candidates[c].problem_detected # gap_result.value.problem_detected
          /\ FracEq(candidates[c].priority_score, gap_result.value.priority_score)

\* C38: every record has usage_count = total_predictions,
\* 0 <= correct_predictions <= total_predictions and
\* 0 <= consecutive_underperformance <= usage_count; record_usage on a
\* deprecated tool updates the aggregates and leaves the status deprecated.
C38_AggregatesConsistent ==
    /\ \A n \in DOMAIN records :
          /\ records[n].usage_count = records[n].total_predictions
          /\ 0 <= records[n].correct_predictions
          /\ records[n].correct_predictions <= records[n].total_predictions
          /\ 0 <= records[n].consecutive_underperformance
          /\ records[n].consecutive_underperformance <= records[n].usage_count
    /\ (last_call.op = "record_usage" /\ last_call.before.status = "DEPRECATED") =>
          LET now == records[last_call.tool_name]
          IN  /\ now.status = "DEPRECATED"
              /\ now.usage_count = last_call.before.usage_count + 1
              /\ now.total_predictions = last_call.before.total_predictions + 1
              /\ now.correct_predictions =
                     last_call.before.correct_predictions
                         + (IF last_call.correct THEN 1 ELSE 0)

\* A correct usage has been recorded on a deprecated tool.
C38_Witness ==
    /\ last_call.op = "record_usage"
    /\ last_call.before.status = "DEPRECATED"
    /\ last_call.correct
    /\ records[last_call.tool_name].correct_predictions = 1

(***************************************************************************)
(* The watcher on its own: one call of watch_market with any arguments.    *)
(* The loop is sequential code, so a step that can be taken is taken.      *)
(***************************************************************************)
InitWatcher ==
    /\ watch_args \in WatchArgs
    /\ watch_pc = "loop"
    /\ ticks = <<>>
    /\ tick_count = 0
    /\ clock = 0
    /\ polls = <<>>
    /\ VerifierIdle
    /\ LifecycleIdle
    /\ CycleIdle
    /\ GapIdle

NextWatcher ==
    \/ WatchLoop
    \/ WatchPoll
    \/ WatchPollRaises
    \/ WatchSleep

FairSpecWatcher == InitWatcher /\ [][NextWatcher]_vars /\ WF_vars(NextWatcher)

WatchEnded == watch_pc \in {"returned", "raised"}

\* The ticks are the polls made, in the order they were made, each marked
\* triggered exactly when its price is at or above the threshold.
TicksInPollOrder ==
    /\ Len(ticks) = Len(polls)
    /\ \A i \in 1..Len(ticks) :
          /\ ticks[i].polled_price = polls[i]
          /\ ticks[i].triggered = (polls[i] >= watch_args.threshold)

\* A triggered tick is the last one, and the call has returned with it.
StopsAtFirstTrigger ==
    \A i \in 1..Len(ticks) :
        ticks[i].triggered => (i = Len(ticks) /\ watch_pc = "returned")

====
